---- MODULE Spec2Model ----
(***************************************************************************)
(* A model of mucal: the multi-source aggregation and the month view of    *)
(* internal/api/handler.go, the ordering of internal/caldav/event.go, the  *)
(* event parsing and recurrence expansion of internal/caldav/client.go and *)
(* internal/caldav/recurring.go, and the frontend's CalendarStore and      *)
(* MonthCalendar (web/src/lib).                                            *)
(*                                                                         *)
(* Time is counted in seconds.  An instant is an integer number of seconds *)
(* since 00:00:00 UTC of day 0; a wall-clock reading (a date and a time of *)
(* day) is kept as day * 86400 + second of the day.  A text is a sequence  *)
(* of byte values, compared bytewise as Go compares strings.               *)
(***************************************************************************)
EXTENDS Integers, Sequences, FiniteSets, TLC

VARIABLES
    \* ---- Handler.GetEvents (one request) ----
    timezone,     \* Handler.timezone / Client.timezone: the display timezone
    req,          \* the request's start and end query parameters
    hpc,          \* position of the handler goroutine
    qrange,       \* the handler's locals start, end (instants)
    spawned,      \* how many clients the for loop has started a goroutine for
    srcOutcome,   \* what FetchEvents of each client returns for this request
    tpc,          \* position of the goroutine of each client
    tres,         \* the goroutine's locals events, err, and the slice header
                  \* its append has read
    allEvents,    \* shared: the merged events
    errs,         \* shared: the collected errors (the failing calendar's name)
    mu,           \* sync.Mutex: its holder, or NoOne
    wg,           \* sync.WaitGroup: its counter
    resp,         \* the responses written to the http.ResponseWriter
    \* ---- Client.parseEvent (one component) ----
    pcomp,        \* the component handed to parseEvent
    ppc,          \* position in parseEvent / expandRecurringEvent
    head,         \* parseEvent's locals uid, summary, ..., startTime, endTime, allDay
    rset,         \* expandRecurringEvent's rule set
    occurrences,  \* expandRecurringEvent's local occurrences
    pout,         \* what parseEvent returns
    \* ---- Client.FetchEvents (one call) ----
    server,       \* what QueryCalendar returns
    fpc,          \* position in FetchEvents
    fidx,         \* the objects the loop has gone through
    fevents,      \* FetchEvents' local events
    fout,         \* what FetchEvents returns
    \* ---- the frontend: CalendarStore and MonthCalendar ----
    selectedWeekStart, \* CalendarStore.selectedWeekStart, as a week number
    events,            \* CalendarStore.events
    loading,           \* CalendarStore.loading
    weekFetch,         \* the call of fetchEvents in flight, if any
    initPc,            \* position of CalendarStore.init
    errorShown,        \* errorStore: an error has been shown
    currentMonth,      \* MonthCalendar's currentMonth, as a month number
    effectPending,     \* MonthCalendar's $effect is scheduled to run
    monthEventDays,    \* CalendarStore.monthEventDays
    monthFetches,      \* the calls of fetchMonthEventDays in flight
    consoleErrors      \* console.error has been called

aggVars   == <<req, hpc, spawned, srcOutcome, tpc, tres, allEvents, errs, mu,
               wg, resp>>
parseVars == <<pcomp, ppc, head, rset, occurrences, pout>>
fetchVars == <<server, fpc, fidx, fevents, fout>>
weekVars  == <<selectedWeekStart, events, loading, weekFetch, initPc, errorShown>>
monthVars == <<currentMonth, effectPending, monthEventDays, monthFetches,
               consoleErrors>>
storeVars == <<weekVars, monthVars>>

vars == <<timezone, qrange, aggVars, parseVars, fetchVars, storeVars>>

(***************************************************************************)
(* Bounds of the model.                                                    *)
(***************************************************************************)
NumSources == 2      \* configured calendars (config.Validate: at least one)
MaxFetched == 2      \* longest event list one FetchEvents returns

(***************************************************************************)
(* Program constants.                                                      *)
(***************************************************************************)
SecondsPerHour == 3600
SecondsPerDay == 86400

NoOne == 0

Min(a, b) == IF a < b THEN a ELSE b
Max(a, b) == IF a < b THEN b ELSE a

(***************************************************************************)
(* time.Location.  A zone has one transition at most: offset std before    *)
(* the instant trans, offset dst from it on.  A fixed zone has std = dst.  *)
(***************************************************************************)
\* The two zones with a transition change offset at 01:00:00 UTC of day 10.
ZoneUTC    == [name |-> "UTC",    std |-> 0,      dst |-> 0,      trans |-> 0]
ZoneEast   == [name |-> "East",   std |-> 3600,   dst |-> 3600,   trans |-> 0]
ZoneWest   == [name |-> "West",   std |-> -18000, dst |-> -18000, trans |-> 0]
ZoneSpring == [name |-> "Spring", std |-> 3600,   dst |-> 7200,   trans |-> 867600]
ZoneFall   == [name |-> "Fall",   std |-> 7200,   dst |-> 3600,   trans |-> 867600]

Zones == {ZoneUTC, ZoneEast, ZoneWest, ZoneSpring, ZoneFall}

\* Location.lookup: the offset in force at the instant u, and the bounds
\* [start, end) of the period it is in force for.
lookup(loc, u) ==
    IF loc.std = loc.dst
    THEN [offset |-> loc.std, hasStart |-> FALSE, start |-> 0, hasEnd |-> FALSE, end |-> 0]
    ELSE IF u < loc.trans
         THEN [offset |-> loc.std, hasStart |-> FALSE, start |-> 0,
               hasEnd |-> TRUE, end |-> loc.trans]
         ELSE [offset |-> loc.dst, hasStart |-> TRUE, start |-> loc.trans,
               hasEnd |-> FALSE, end |-> 0]

\* Time.In(loc) keeps the instant; the wall clock it then shows.
WallClock(loc, u) == u + lookup(loc, u).offset

DayOf(w)     == w \div SecondsPerDay
TimeOfDay(w) == w % SecondsPerDay

\* time.Date(y, m, d, h, 0, 0, 0, loc): the instant of a wall-clock reading.
\* The reading is first looked up as if it were UTC, and looked up again when
\* the instant so found lies outside the period of the offset found.
Date(loc, w) ==
    LET first == lookup(loc, w)
        utc   == w - first.offset
        off   == IF first.offset # 0
                    /\ \/ (first.hasStart /\ utc < first.start)
                       \/ (first.hasEnd /\ utc >= first.end)
                 THEN lookup(loc, utc).offset
                 ELSE first.offset
    IN  w - off

(***************************************************************************)
(* caldav.Event and Events.Less.                                           *)
(***************************************************************************)
\* caldav.Event.  CalendarColor goes with CalendarName and is left out.
Event(uid, summary, description, location, start, end, allDay, cal, recurring) ==
    [UID |-> uid, Summary |-> summary, Description |-> description,
     Location |-> location, Start |-> start, End |-> end, AllDay |-> allDay,
     CalendarName |-> cal, IsRecurring |-> recurring]

\* Go's s < t on strings: bytewise lexicographic.
RECURSIVE StrLessFrom(_, _, _)
StrLessFrom(s, t, i) ==
    IF i > Len(t) THEN FALSE
    ELSE IF i > Len(s) THEN TRUE
    ELSE IF s[i] # t[i] THEN s[i] < t[i]
    ELSE StrLessFrom(s, t, i + 1)

StrLess(s, t) == StrLessFrom(s, t, 1)

\* Less with the summaries compared by "not after" instead of "before".
Less_SummaryNotAfter(a, b) ==
    IF a.AllDay # b.AllDay THEN a.AllDay
    ELSE IF a.Start # b.Start THEN a.Start < b.Start
    ELSE ~StrLess(b.Summary, a.Summary)

\* Less with the start compared before the all-day flag.
Less_StartFirst(a, b) ==
    IF a.Start # b.Start THEN a.Start < b.Start
    ELSE IF a.AllDay # b.AllDay THEN a.AllDay
    ELSE StrLess(a.Summary, b.Summary)

\* Events.Less on two events.
Less(a, b) ==
    IF a.AllDay # b.AllDay THEN a.AllDay
    ELSE IF a.Start # b.Start THEN a.Start < b.Start
    ELSE StrLess(a.Summary, b.Summary)

\* sort.Sort(Events(s)).  Up to 12 elements the standard library sorts by
\* insertion: each element is swapped down while it is Less than the one
\* before it.
\* The insertion that also swaps an element down past one it ties with.
RECURSIVE InsertDown_PastTies(_, _)
InsertDown_PastTies(s, j) ==
    IF j > 1 /\ ~Less(s[j - 1], s[j])
    THEN InsertDown_PastTies([s EXCEPT ![j] = s[j - 1], ![j - 1] = s[j]], j - 1)
    ELSE s

RECURSIVE InsertDown(_, _)
InsertDown(s, j) ==
    IF j > 1 /\ Less(s[j], s[j - 1])
    THEN InsertDown([s EXCEPT ![j] = s[j - 1], ![j - 1] = s[j]], j - 1)
    ELSE s

RECURSIVE InsertionSortFrom(_, _)
InsertionSortFrom(s, i) ==
    IF i > Len(s) THEN s ELSE InsertionSortFrom(InsertDown(s, i), i + 1)

SortEvents(s) == InsertionSortFrom(s, 2)

(***************************************************************************)
(* Texts: unescapeICalText (client.go) and the numbers strconv.Atoi reads. *)
(***************************************************************************)
Backslash == 92
Comma     == 44
Semicolon == 59
LowerN    == 110
UpperN    == 78
Newline   == 10

\* The scan that drops the backslash of an unknown escape and skips the byte
\* after it.
RECURSIVE unescapeFrom_SkipUnknown(_, _)
unescapeFrom_SkipUnknown(s, i) ==
    IF i > Len(s) THEN <<>>
    ELSE IF s[i] = Backslash /\ i + 1 <= Len(s)
    THEN IF s[i + 1] \in {Comma, Semicolon, Backslash}
         THEN <<s[i + 1]>> \o unescapeFrom_SkipUnknown(s, i + 2)
         ELSE IF s[i + 1] \in {LowerN, UpperN}
         THEN <<Newline>> \o unescapeFrom_SkipUnknown(s, i + 2)
         ELSE <<Backslash>> \o unescapeFrom_SkipUnknown(s, i + 2)
    ELSE <<s[i]>> \o unescapeFrom_SkipUnknown(s, i + 1)

\* The scan without the backslash among the escaped bytes.
RECURSIVE unescapeFrom_NoBackslashPair(_, _)
unescapeFrom_NoBackslashPair(s, i) ==
    IF i > Len(s) THEN <<>>
    ELSE IF s[i] = Backslash /\ i + 1 <= Len(s)
    THEN IF s[i + 1] \in {Comma, Semicolon}
         THEN <<s[i + 1]>> \o unescapeFrom_NoBackslashPair(s, i + 2)
         ELSE IF s[i + 1] \in {LowerN, UpperN}
         THEN <<Newline>> \o unescapeFrom_NoBackslashPair(s, i + 2)
         ELSE <<Backslash>> \o unescapeFrom_NoBackslashPair(s, i + 1)
    ELSE <<s[i]>> \o unescapeFrom_NoBackslashPair(s, i + 1)

\* client.go:315-333: the scan of unescapeICalText from the byte at i.
RECURSIVE unescapeFrom(_, _)
unescapeFrom(s, i) ==
    IF i > Len(s) THEN <<>>
    ELSE IF s[i] = Backslash /\ i + 1 <= Len(s)
    THEN IF s[i + 1] \in {Comma, Semicolon, Backslash}
         THEN <<s[i + 1]>> \o unescapeFrom(s, i + 2)
         ELSE IF s[i + 1] \in {LowerN, UpperN}
         THEN <<Newline>> \o unescapeFrom(s, i + 2)
         ELSE <<Backslash>> \o unescapeFrom(s, i + 1)
    ELSE <<s[i]>> \o unescapeFrom(s, i + 1)

unescapeICalText(s) == unescapeFrom(s, 1)

Digits == 48..57

RECURSIVE DigitsValue(_, _, _)
DigitsValue(s, i, acc) ==
    IF i > Len(s) THEN acc ELSE DigitsValue(s, i + 1, acc * 10 + (s[i] - 48))

\* strconv.Atoi: an optional sign, then one decimal digit or more.
Atoi(s) ==
    LET signed == Len(s) > 0 /\ s[1] \in {43, 45}
        body   == IF signed THEN SubSeq(s, 2, Len(s)) ELSE s
    IN  IF Len(body) = 0 \/ \E i \in DOMAIN body : body[i] \notin Digits
        THEN [ok |-> FALSE, n |-> 0]
        ELSE [ok |-> TRUE,
              n  |-> IF signed /\ s[1] = 45 THEN 0 - DigitsValue(body, 1, 0)
                     ELSE DigitsValue(body, 1, 0)]

\* strings.Index(s, <<b>>), counted from 1; 0 when b is not in s.
IndexByte(s, b) ==
    IF \E i \in DOMAIN s : s[i] = b
    THEN CHOOSE i \in DOMAIN s : s[i] = b /\ \A j \in 1..(i - 1) : s[j] # b
    ELSE 0

Contains(s, b) == IndexByte(s, b) # 0

TrimSuffix(s, b) ==
    IF Len(s) > 0 /\ s[Len(s)] = b THEN SubSeq(s, 1, Len(s) - 1) ELSE s

(***************************************************************************)
(* parseDuration (recurring.go:131-214).  The result is in seconds.        *)
(***************************************************************************)
LetterP == 80
LetterT == 84
LetterW == 87
LetterD == 68
LetterH == 72
LetterM == 77
LetterS == 83
Minus   == 45

DurationError == [ok |-> FALSE, d |-> 0]

\* One unit of the time part: the field before the unit letter is read and
\* cut off.  [ok, d, rest]
TimeUnit(remaining, letter, seconds) ==
    IF Contains(remaining, letter)
    THEN LET idx == IndexByte(remaining, letter)
             n   == Atoi(SubSeq(remaining, 1, idx - 1))
         IN  [ok |-> n.ok, d |-> n.n * seconds,
              rest |-> SubSeq(remaining, idx + 1, Len(remaining))]
    ELSE [ok |-> TRUE, d |-> 0, rest |-> remaining]

parseDuration(value) ==
    LET hasP     == Len(value) >= 1 /\ value[1] = LetterP
        negative == Len(value) >= 1 /\ value[1] = Minus
        hasNegP  == Len(value) >= 2 /\ value[1] = Minus /\ value[2] = LetterP
    IN
    IF ~hasP /\ ~hasNegP THEN DurationError
    ELSE
    LET v        == IF negative THEN SubSeq(value, 3, Len(value))
                    ELSE SubSeq(value, 2, Len(value))
        \* strings.Split(v, "T"): parts[0] and, when there is one, parts[1]
        t1       == IndexByte(v, LetterT)
        datePart == IF t1 = 0 THEN v ELSE SubSeq(v, 1, t1 - 1)
        afterT   == IF t1 = 0 THEN <<>> ELSE SubSeq(v, t1 + 1, Len(v))
        t2       == IndexByte(afterT, LetterT)
        timePart == IF t2 = 0 THEN afterT ELSE SubSeq(afterT, 1, t2 - 1)
        weeks    == Atoi(TrimSuffix(datePart, LetterW))
        days     == Atoi(TrimSuffix(datePart, LetterD))
        date     == IF Contains(datePart, LetterW)
                    THEN [ok |-> weeks.ok, d |-> weeks.n * 7 * SecondsPerDay]
                    ELSE IF Contains(datePart, LetterD)
                    THEN [ok |-> days.ok, d |-> days.n * SecondsPerDay]
                    ELSE [ok |-> TRUE, d |-> 0]
        hours    == TimeUnit(timePart, LetterH, SecondsPerHour)
        minutes  == TimeUnit(hours.rest, LetterM, 60)
        seconds  == TimeUnit(minutes.rest, LetterS, 1)
    IN
    IF ~date.ok THEN DurationError
    ELSE IF timePart = <<>> THEN [ok |-> TRUE, d |-> IF negative THEN 0 - date.d ELSE date.d]
    ELSE IF ~hours.ok THEN DurationError
    ELSE IF ~minutes.ok THEN DurationError
    ELSE IF ~seconds.ok THEN DurationError
    ELSE LET total == date.d + hours.d + minutes.d + seconds.d
         IN  [ok |-> TRUE, d |-> IF negative THEN 0 - total ELSE total]

(***************************************************************************)
(* Date and date-time values.  The text of a value is kept as its form -   *)
(* "DATE" for YYYYMMDD, "LOCAL" for YYYYMMDDTHHMMSS, "UTCZ" for the same   *)
(* followed by Z, "BAD" for anything else - and the wall-clock reading w   *)
(* its digits spell.  A layout parses the texts of its own form only.      *)
(***************************************************************************)
Text(form, w) == [form |-> form, w |-> w]

LayoutDate  == "DATE"     \* "20060102"
LayoutLocal == "LOCAL"    \* "20060102T150405"
LayoutUTCZ  == "UTCZ"     \* "20060102T150405Z": the Z is a literal, no zone

ParseError == [ok |-> FALSE, t |-> 0]

\* time.ParseInLocation(layout, value, loc): a layout carries no zone, so the
\* reading is taken in loc.  time.Parse(layout, value) is the same in UTC.
ParseInLocation(layout, value, loc) ==
    IF value.form = layout THEN [ok |-> TRUE, t |-> Date(loc, value.w)] ELSE ParseError

\* Time.Format of the instant t shown in loc.
FormatDate(loc, t)  == Text(LayoutDate, DayOf(WallClock(loc, t)) * SecondsPerDay)
FormatLocal(loc, t) == Text(LayoutLocal, WallClock(loc, t))
FormatUTCZ(t)       == Text(LayoutUTCZ, t)

\* time.LoadLocation.
KnownZone(tzid) == \E z \in Zones : z.name = tzid
LoadLocation(tzid) == CHOOSE z \in Zones : z.name = tzid

\* A property of a component: absent, or a value with its parameters.
NoProp == [present |-> FALSE, value |-> Text("BAD", 0), VALUE |-> "", TZID |-> ""]
Prop(value, valueType, tzid) ==
    [present |-> TRUE, value |-> value, VALUE |-> valueType, TZID |-> tzid]

\* The zero time.Time of an error return is in UTC.
DateTimeError == [ok |-> FALSE, t |-> 0, allDay |-> FALSE, loc |-> "UTC"]

\* The first parse when it succeeds, else the next: "if err == nil".
FirstParsed(first, next) == IF first.ok THEN first ELSE next

\* recurring.go:217-233: the three layouts are tried in turn, each in tz.
parseICalDate(value, tz) ==
    FirstParsed(ParseInLocation(LayoutUTCZ, value, tz),
        FirstParsed(ParseInLocation(LayoutLocal, value, tz),
                    ParseInLocation(LayoutDate, value, tz)))

\* client.go:259-262 and 293-301: the returns of parseDateTime on a parse.
\* The time returned is in the location tz: ParseInLocation(..., c.timezone)
\* for a date, t.In(c.timezone) for a date-time.
DateTimeOf(parsed, allDay, tz) ==
    IF parsed.ok
    THEN [ok |-> TRUE, t |-> parsed.t, allDay |-> allDay, loc |-> tz.name]
    ELSE DateTimeError

\* parseDateTime reading a date in the zone of its TZID parameter.
parseDateTime_DateInTZID(prop, tz) ==
    IF prop.VALUE = "DATE"
    THEN DateTimeOf(ParseInLocation(LayoutDate, prop.value, IF KnownZone(prop.TZID) THEN LoadLocation(prop.TZID) ELSE tz), TRUE, tz)
    ELSE IF prop.TZID # ""
    THEN LET loc == IF KnownZone(prop.TZID) THEN LoadLocation(prop.TZID) ELSE tz
         IN  DateTimeOf(FirstParsed(ParseInLocation(LayoutLocal, prop.value, loc),
                                    ParseInLocation(LayoutUTCZ, prop.value, ZoneUTC)),
                        FALSE, tz)
    ELSE DateTimeOf(IF prop.value.form = LayoutUTCZ
                    THEN ParseInLocation(LayoutUTCZ, prop.value, ZoneUTC)
                    ELSE ParseInLocation(LayoutLocal, prop.value, tz),
                    FALSE, tz)

\* parseDateTime reading a value that ends in Z in the zone of its TZID.
parseDateTime_ZInZone(prop, tz) ==
    IF prop.VALUE = "DATE"
    THEN DateTimeOf(ParseInLocation(LayoutDate, prop.value, tz), TRUE, tz)
    ELSE IF prop.TZID # ""
    THEN LET loc == IF KnownZone(prop.TZID) THEN LoadLocation(prop.TZID) ELSE tz
         IN  DateTimeOf(FirstParsed(ParseInLocation(LayoutLocal, prop.value, loc),
                                    ParseInLocation(LayoutUTCZ, prop.value, loc)),
                        FALSE, tz)
    ELSE DateTimeOf(IF prop.value.form = LayoutUTCZ
                    THEN ParseInLocation(LayoutUTCZ, prop.value, ZoneUTC)
                    ELSE ParseInLocation(LayoutLocal, prop.value, tz),
                    FALSE, tz)

\* client.go:248-302.  The instant returned is shown in tz (Time.In keeps it).
parseDateTime(prop, tz) ==
    IF prop.VALUE = "DATE"
    THEN DateTimeOf(ParseInLocation(LayoutDate, prop.value, tz), TRUE, tz)
    ELSE IF prop.TZID # ""
    THEN LET loc == IF KnownZone(prop.TZID) THEN LoadLocation(prop.TZID) ELSE tz
         IN  DateTimeOf(FirstParsed(ParseInLocation(LayoutLocal, prop.value, loc),
                                    ParseInLocation(LayoutUTCZ, prop.value, ZoneUTC)),
                        FALSE, tz)
    ELSE DateTimeOf(IF prop.value.form = LayoutUTCZ
                    THEN ParseInLocation(LayoutUTCZ, prop.value, ZoneUTC)
                    ELSE ParseInLocation(LayoutLocal, prop.value, tz),
                    FALSE, tz)

(***************************************************************************)
(* A VEVENT component as FetchEvents receives it.  A recurrence rule is    *)
(* kept as its frequency and its COUNT (0: none), or as unparsable.        *)
(***************************************************************************)
NoText == [present |-> FALSE, value |-> <<>>]
SomeText(value) == [present |-> TRUE, value |-> value]

NoRule == [present |-> FALSE, valid |-> FALSE, freq |-> "", count |-> 0]
Rule(freq, count) == [present |-> TRUE, valid |-> TRUE, freq |-> freq, count |-> count]
BadRule == [present |-> TRUE, valid |-> FALSE, freq |-> "", count |-> 0]

NoExDate == [present |-> FALSE, entries |-> <<>>]
ExDate(entries) == [present |-> TRUE, entries |-> entries]

Component(name, uid, summary, dtstart, dtend, duration, rrule, exdate) ==
    [name |-> name, uid |-> uid, summary |-> summary, description |-> NoText,
     location |-> NoText, dtstart |-> dtstart, dtend |-> dtend,
     duration |-> duration, rrule |-> rrule, exdate |-> exdate]

(***************************************************************************)
(* The recurrence library as expandRecurringEvent uses it.  A rule runs in *)
(* UTC from its DTSTART with a fixed period; its set leaves out the        *)
(* instants of its exclusion dates.                                        *)
(***************************************************************************)
Period(freq) ==
    IF freq = "HOURLY" THEN SecondsPerHour
    ELSE IF freq = "DAILY" THEN SecondsPerDay
    ELSE 7 * SecondsPerDay

\* rrule.StrToROption("DTSTART:" + dtstart + "\nRRULE:" + value): a DTSTART
\* without a zone is read in UTC.
StrToROption(dtstart, rule) ==
    IF ~rule.valid
    THEN [ok |-> FALSE, dtstart |-> 0, period |-> 1, count |-> 0]
    ELSE [ok |-> TRUE, dtstart |-> ParseInLocation(dtstart.form, dtstart, ZoneUTC).t,
          period |-> Period(rule.freq), count |-> rule.count]

\* rset.Between(after, before, true): the instants of the rule in
\* [after, before], ascending, the excluded ones left out.
Between(rs, after, before) ==
    LET first == IF after <= rs.dtstart THEN 0
                 ELSE (after - rs.dtstart + rs.period - 1) \div rs.period
        upto  == (before - rs.dtstart) \div rs.period
        last  == IF rs.count > 0 THEN Min(upto, rs.count - 1) ELSE upto
        all   == [i \in 1..(last - first + 1) |->
                     rs.dtstart + (first + i - 1) * rs.period]
        Kept(t) == t \notin rs.exdates
    IN  SelectSeq(all, Kept)

(***************************************************************************)
(* expandRecurringEvent (recurring.go:29-127), in the steps of its body.   *)
(***************************************************************************)
maxOccurrences == 1000
BufferDays == 30

\* recurring.go:37-46: the DTSTART handed to the rule.
RuleDtstart(startTime, allDay, tz) ==
    IF allDay THEN FormatDate(tz, startTime) ELSE FormatUTCZ(startTime)

\* The exclusion dates with the loop left at the first entry that does not
\* parse.
ExDates_Break(exdate, tz) ==
    IF ~exdate.present THEN {}
    ELSE {parseICalDate(exdate.entries[i], tz).t :
             i \in {j \in DOMAIN exdate.entries :
                        \A k \in 1..j : parseICalDate(exdate.entries[k], tz).ok}}

\* recurring.go:65-79: the exclusion dates that parse; the others are skipped.
ExDates(exdate, tz) ==
    IF ~exdate.present THEN {}
    ELSE {parseICalDate(exdate.entries[i], tz).t :
             i \in {j \in DOMAIN exdate.entries : parseICalDate(exdate.entries[j], tz).ok}}

\* recurring.go:32-79: the rule set, or the error of an unparsable rule.
RuleSet(comp, startTime, allDay, tz) ==
    LET rOption == StrToROption(RuleDtstart(startTime, allDay, tz), comp.rrule)
    IN  [ok |-> comp.rrule.present /\ rOption.ok, dtstart |-> rOption.dtstart,
         period |-> rOption.period, count |-> rOption.count,
         exdates |-> ExDates(comp.exdate, tz)]

\* recurring.go:83-86.
BufferedOccurrences(rs, queryStart, queryEnd) ==
    Between(rs, queryStart - BufferDays * SecondsPerDay,
                  queryEnd + BufferDays * SecondsPerDay)

\* No limit at all.
LimitOccurrences_None(occs) == occs

\* The limit keeping the latest occs instead of the earliest.
LimitOccurrences_Latest(occs) ==
    IF Len(occs) > maxOccurrences
    THEN SubSeq(occs, Len(occs) - maxOccurrences + 1, Len(occs))
    ELSE occs

\* recurring.go:88-92.
LimitOccurrences(occs) ==
    IF Len(occs) > maxOccurrences
    THEN SubSeq(occs, 1, maxOccurrences)
    ELSE occs

\* recurring.go:106: the test that drops an occurrence.
OutsideRange(occStart, occEnd, queryStart, queryEnd) ==
    occEnd < queryStart \/ occStart > queryEnd

\* recurring.go:111: the UID of an occurrence.
OccurrenceUID(uid, occStart, tz) == <<uid, FormatLocal(tz, occStart).w>>

\* Materialize with the length of an occurrence taken on the wall clock of
\* the display timezone instead of as an absolute duration.
Materialize_WallClockLength(occs, uid, summary, description, location, startTime, endTime, allDay, queryStart, queryEnd, tz, cal) ==
    LET duration == endTime - startTime
        InRange(t) == ~OutsideRange(t, t + duration, queryStart, queryEnd)
        kept == SelectSeq(occs, InRange)
    IN  [i \in 1..Len(kept) |->
            Event(OccurrenceUID(uid, kept[i], tz), summary, description, location,
                  kept[i], Date(tz, WallClock(tz, kept[i]) + duration), allDay, cal, TRUE)]

\* recurring.go:94-126: one event for each occurrence that is not dropped.
Materialize(occs, uid, summary, description, location, startTime, endTime, allDay, queryStart, queryEnd, tz, cal) ==
    LET duration == endTime - startTime
        InRange(t) == ~OutsideRange(t, t + duration, queryStart, queryEnd)
        kept == SelectSeq(occs, InRange)
    IN  [i \in 1..Len(kept) |->
            Event(OccurrenceUID(uid, kept[i], tz), summary, description, location,
                  kept[i], kept[i] + duration, allDay, cal, TRUE)]

NoEvents(err) == [err |-> err, events |-> <<>>]

\* recurring.go:81-126: the events of a rule set, or the error of recurring.go
\* 50-59 when there is none.
ExpandSet(rs, uid, summary, description, location, startTime, endTime, allDay, queryStart, queryEnd, tz, cal) ==
    IF ~rs.ok THEN NoEvents("rrule")
    ELSE [err |-> "",
          events |-> Materialize(
              LimitOccurrences(BufferedOccurrences(rs, queryStart, queryEnd)),
              uid, summary, description, location, startTime, endTime,
              allDay, queryStart, queryEnd, tz, cal)]

expandRecurringEvent(comp, uid, summary, description, location, startTime, endTime, allDay, queryStart, queryEnd, tz, cal) ==
    ExpandSet(RuleSet(comp, startTime, allDay, tz), uid, summary, description, location, startTime, endTime, allDay, queryStart, queryEnd, tz, cal)

(***************************************************************************)
(* parseEvent (client.go:163-245).                                         *)
(***************************************************************************)
TextOf(prop) == IF prop.present THEN unescapeICalText(prop.value) ELSE <<>>

\* HeadOf with the duration read before the end marker.
HeadOf_DurationFirst(comp, start, end, dur) ==
    LET err   == IF ~comp.uid.present THEN "uid"
                 ELSE IF ~comp.dtstart.present THEN "dtstart"
                 ELSE IF ~start.ok THEN "dtstart"
                 ELSE IF comp.duration.present THEN (IF dur.ok THEN "" ELSE "duration")
                 ELSE IF comp.dtend.present THEN (IF end.ok THEN "" ELSE "dtend")
                 ELSE ""
        endTime == IF comp.duration.present THEN start.t + dur.d
                   ELSE IF comp.dtend.present THEN end.t
                   ELSE IF start.allDay THEN start.t + SecondsPerDay
                   ELSE start.t
    IN  IF err # ""
        THEN [err |-> err, uid |-> "", summary |-> <<>>, description |-> <<>>,
              location |-> <<>>, startTime |-> 0, startLoc |-> "UTC", endTime |-> 0,
              allDay |-> FALSE]
        ELSE [err |-> "", uid |-> comp.uid.value, summary |-> TextOf(comp.summary),
              description |-> TextOf(comp.description),
              location |-> TextOf(comp.location), startTime |-> start.t,
              startLoc |-> start.loc, endTime |-> endTime, allDay |-> start.allDay]

\* client.go:164-220: the properties of the event, or the error that ends
\* parseEvent before the event is built, from the start, the end and the
\* duration as parseDateTime and parseDuration read them.
HeadOf(comp, start, end, dur) ==
    LET err   == IF ~comp.uid.present THEN "uid"
                 ELSE IF ~comp.dtstart.present THEN "dtstart"
                 ELSE IF ~start.ok THEN "dtstart"
                 ELSE IF comp.dtend.present THEN (IF end.ok THEN "" ELSE "dtend")
                 ELSE IF comp.duration.present THEN (IF dur.ok THEN "" ELSE "duration")
                 ELSE ""
        endTime == IF comp.dtend.present THEN end.t
                   ELSE IF comp.duration.present THEN start.t + dur.d
                   ELSE IF start.allDay THEN start.t + SecondsPerDay
                   ELSE start.t
    IN  IF err # ""
        THEN [err |-> err, uid |-> "", summary |-> <<>>, description |-> <<>>,
              location |-> <<>>, startTime |-> 0, startLoc |-> "UTC", endTime |-> 0,
              allDay |-> FALSE]
        ELSE [err |-> "", uid |-> comp.uid.value, summary |-> TextOf(comp.summary),
              description |-> TextOf(comp.description),
              location |-> TextOf(comp.location), startTime |-> start.t,
              startLoc |-> start.loc, endTime |-> endTime, allDay |-> start.allDay]

EventHead(comp, tz) ==
    HeadOf(comp, parseDateTime(comp.dtstart, tz), parseDateTime(comp.dtend, tz),
           parseDuration(comp.duration.value))

\* client.go:230-244.
SingleEvent(h, cal) ==
    Event(<<h.uid>>, h.summary, h.description, h.location, h.startTime,
          h.endTime, h.allDay, cal, FALSE)

\* client.go:222-244: what parseEvent returns once the properties are read.
EventsOf(h, comp, queryStart, queryEnd, tz, cal) ==
    IF h.err # "" THEN NoEvents(h.err)
    ELSE IF comp.rrule.present
    THEN expandRecurringEvent(comp, h.uid, h.summary, h.description, h.location,
                              h.startTime, h.endTime, h.allDay,
                              queryStart, queryEnd, tz, cal)
    ELSE [err |-> "", events |-> <<SingleEvent(h, cal)>>]

parseEvent(comp, queryStart, queryEnd, tz, cal) ==
    EventsOf(EventHead(comp, tz), comp, queryStart, queryEnd, tz, cal)

(***************************************************************************)
(* parseCalendarObject (client.go:132-160).                                *)
(***************************************************************************)
\* client.go:143-156: one turn of the loop: a child that is no VEVENT is
\* passed over, a VEVENT is parsed.
parseChild(comp, queryStart, queryEnd, tz, cal) ==
    IF comp.name # "VEVENT" THEN [err |-> "", events |-> <<>>]
    ELSE parseEvent(comp, queryStart, queryEnd, tz, cal)

\* client.go:116-122 and 147-156: the events appended for a result: none
\* when it is an error ("continue").
Parsed(r) == IF r.err # "" THEN <<>> ELSE r.events

\* The parseCalendarObject loop without the "continue" on a failing event.
RECURSIVE parseChildren_Abort(_, _, _, _, _, _)
parseChildren_Abort(children, i, queryStart, queryEnd, tz, cal) ==
    IF i > Len(children) THEN <<>>
    ELSE LET r == parseChild(children[i], queryStart, queryEnd, tz, cal)
         IN  IF r.err # "" THEN <<>>
             ELSE r.events \o parseChildren_Abort(children, i + 1, queryStart, queryEnd, tz, cal)

\* client.go:142-157: the loop over the children from the i-th on; the events
\* of a child that fails are left out and the loop goes on.
RECURSIVE parseChildren(_, _, _, _, _, _)
parseChildren(children, i, queryStart, queryEnd, tz, cal) ==
    IF i > Len(children) THEN <<>>
    ELSE Parsed(parseChild(children[i], queryStart, queryEnd, tz, cal))
             \o parseChildren(children, i + 1, queryStart, queryEnd, tz, cal)

\* A calendar object: its data, when it has any, is a list of components.
parseCalendarObject(obj, queryStart, queryEnd, tz, cal) ==
    IF ~obj.hasData THEN NoEvents("nodata")
    ELSE [err |-> "", events |-> parseChildren(obj.children, 1, queryStart, queryEnd, tz, cal)]

(***************************************************************************)
(* Handler.GetEvents: one request, one goroutine per configured client.    *)
(***************************************************************************)
Sources == 1..NumSources

\* The value of a date query parameter: absent, not a date, or a date.
QueryMissing == [text |-> "missing", day |-> 0]
QueryGarbage == [text |-> "garbage", day |-> 0]
QueryDate(d) == [text |-> "date", day |-> d]

Requests ==
    { [start |-> QueryMissing,  end |-> QueryDate(9)],
      [start |-> QueryDate(8),  end |-> QueryMissing],
      [start |-> QueryGarbage,  end |-> QueryDate(9)],
      [start |-> QueryDate(8),  end |-> QueryGarbage],
      [start |-> QueryDate(8),  end |-> QueryDate(9)],
      [start |-> QueryDate(9),  end |-> QueryDate(8)] }

\* The events a calendar may hold, as FetchEvents returns them.
FetchedPool ==
    { Event(<<"e1">>, <<97>>, <<>>, <<>>, 200, 86600, TRUE, 0, FALSE),
      Event(<<"e2">>, <<98>>, <<>>, <<>>, 190, 191, FALSE, 0, FALSE),
      Event(<<"e3">>, <<97>>, <<>>, <<>>, 190, 191, FALSE, 0, FALSE),
      Event(<<"e4">>, <<97>>, <<>>, <<>>, 200, 201, FALSE, 0, FALSE) }

\* FetchEvents returns an error, or a list it has sorted (client.go:126); the
\* events of one calendar are distinct.
FetchedLists ==
    {m \in UNION {[1..n -> FetchedPool] : n \in 0..MaxFetched} :
        /\ \A i, j \in DOMAIN m : i # j => m[i] # m[j]
        /\ SortEvents(m) = m}

FetchOutcomes ==
    {[err |-> TRUE, events |-> <<>>]} \cup {[err |-> FALSE, events |-> l] : l \in FetchedLists}

\* Every event of the client c carries its calendar's name (client.go:239).
OfCalendar(o, c) ==
    [err |-> o.err,
     events |-> [i \in DOMAIN o.events |-> [o.events[i] EXCEPT !.CalendarName = c]]]

NoResult == [err |-> FALSE, events |-> <<>>]

\* The locals of a goroutine: events, err, and seen, the shared slice as the
\* append in progress has read it.
TaskLocals(o, seen) == [err |-> o.err, events |-> o.events, seen |-> seen]

\* handler.go:92-105: the range of a request from day ds to day de.
GetEventsRange(tz, ds, de) ==
    [start |-> Date(tz, ds * SecondsPerDay),
     end   |-> Date(tz, de * SecondsPerDay) + SecondsPerDay]

\* The variables of a part of the program that is not running.
IdleGetEvents ==
    /\ req = [start |-> QueryMissing, end |-> QueryMissing]
    /\ hpc = "off"
    /\ spawned = 0
    /\ srcOutcome = [c \in Sources |-> NoResult]
    /\ tpc = [c \in Sources |-> "unstarted"]
    /\ tres = [c \in Sources |-> TaskLocals(NoResult, <<>>)]
    /\ allEvents = <<>>
    /\ errs = <<>>
    /\ mu = NoOne
    /\ wg = 0
    /\ resp = <<>>

IdleHead == [err |-> "", uid |-> "", summary |-> <<>>, description |-> <<>>,
             location |-> <<>>, startTime |-> 0, startLoc |-> "UTC", endTime |-> 0,
             allDay |-> FALSE]
IdleRuleSet == [ok |-> FALSE, dtstart |-> 0, period |-> 1, count |-> 0, exdates |-> {}]

IdleParseEvent ==
    /\ pcomp = Component("VEVENT", NoText, NoText, NoProp, NoProp, NoText, NoRule, NoExDate)
    /\ ppc = "off"
    /\ head = IdleHead
    /\ rset = IdleRuleSet
    /\ occurrences = <<>>
    /\ pout = NoEvents("")

IdleFetchEvents ==
    /\ server = [err |-> FALSE, objects |-> <<>>]
    /\ fpc = "off"
    /\ fidx = 0
    /\ fevents = <<>>
    /\ fout = NoEvents("")

\* The frontend as its modules construct it (calendar.svelte.ts:25-31,
\* MonthCalendar.svelte:6), before the component is mounted.
IdleWeek ==
    /\ selectedWeekStart = 0
    /\ events = <<>>
    /\ loading = FALSE
    /\ weekFetch = <<>>
    /\ initPc = "off"
    /\ errorShown = FALSE

IdleMonth ==
    /\ currentMonth = 0
    /\ effectPending = FALSE
    /\ monthEventDays = <<>>
    /\ monthFetches = <<>>
    /\ consoleErrors = FALSE

IdleStore == IdleWeek /\ IdleMonth

InitGetEvents ==
    /\ IdleStore
    /\ timezone \in {ZoneEast}
    /\ req \in Requests
    /\ hpc = "parse"
    /\ qrange = [start |-> 0, end |-> 0]
    /\ IdleParseEvent
    /\ IdleFetchEvents
    /\ spawned = 0
    /\ \E f \in [Sources -> FetchOutcomes] :
           srcOutcome = [c \in Sources |-> OfCalendar(f[c], c)]
    /\ tpc = [c \in Sources |-> "unstarted"]
    /\ tres = [c \in Sources |-> TaskLocals(NoResult, <<>>)]
    /\ allEvents = <<>>
    /\ errs = <<>>
    /\ mu = NoOne
    /\ wg = 0
    /\ resp = <<>>

\* handler.go:83-105: the query parameters are read and parsed; a missing or
\* unparsable one is answered 400 and the handler returns.
ParseQuery ==
    /\ hpc = "parse"
    /\ IF req.start.text = "missing" \/ req.end.text = "missing"
          \/ req.start.text # "date" \/ req.end.text # "date"
       THEN /\ resp' = Append(resp, [code |-> 400, events |-> <<>>])
            /\ hpc' = "done"
            /\ UNCHANGED qrange
       ELSE /\ qrange' = GetEventsRange(timezone, req.start.day, req.end.day)
            /\ hpc' = "spawn"
            /\ UNCHANGED resp
    /\ UNCHANGED <<storeVars, parseVars, fetchVars, timezone, req, spawned, srcOutcome, tpc, tres, allEvents,
                   errs, mu, wg>>

\* handler.go:115-132: one turn of the for loop: wg.Add(1); go func(client).
SpawnNext ==
    /\ hpc = "spawn"
    /\ IF spawned < NumSources
       THEN /\ wg' = wg + 1
            /\ spawned' = spawned + 1
            /\ tpc' = [tpc EXCEPT ![spawned + 1] = "fetch"]
            /\ UNCHANGED hpc
       ELSE /\ hpc' = "wait"
            /\ UNCHANGED <<wg, spawned, tpc>>
    /\ UNCHANGED <<storeVars, parseVars, fetchVars, timezone, req, qrange, srcOutcome, tres, allEvents, errs,
                   mu, resp>>

\* handler.go:120: events, err := c.FetchEvents(start, end).
TaskFetch(c) ==
    /\ tpc[c] = "fetch"
    /\ tres' = [tres EXCEPT ![c] = TaskLocals(srcOutcome[c], <<>>)]
    /\ tpc' = [tpc EXCEPT ![c] = "lock"]
    /\ UNCHANGED <<storeVars, parseVars, fetchVars, timezone, req, hpc, qrange, spawned, srcOutcome, allEvents,
                   errs, mu, wg, resp>>

\* mu.Lock() that returns without the mutex being free or taken.
TaskLock_NoMutex(c) ==
    /\ tpc[c] = "lock"
    /\ tpc' = [tpc EXCEPT ![c] = "read"]
    /\ UNCHANGED <<storeVars, parseVars, fetchVars, timezone, req, hpc, qrange, spawned, srcOutcome, tres,
                   allEvents, errs, mu, wg, resp>>

\* handler.go:122 and 128: mu.Lock().
TaskLock(c) ==
    /\ tpc[c] = "lock"
    /\ mu = NoOne
    /\ mu' = c
    /\ tpc' = [tpc EXCEPT ![c] = "read"]
    /\ UNCHANGED <<storeVars, parseVars, fetchVars, timezone, req, hpc, qrange, spawned, srcOutcome, tres,
                   allEvents, errs, wg, resp>>

\* handler.go:123 and 129: append(errs, ...) or append(allEvents, events...)
\* reads the shared slice.
TaskRead(c) ==
    /\ tpc[c] = "read"
    /\ tres' = [tres EXCEPT ![c].seen = IF tres[c].err THEN errs ELSE allEvents]
    /\ tpc' = [tpc EXCEPT ![c] = "append"]
    /\ UNCHANGED <<storeVars, parseVars, fetchVars, timezone, req, hpc, qrange, spawned, srcOutcome,
                   allEvents, errs, mu, wg, resp>>

\* handler.go:123 and 129: the slice read, with the error or the events
\* appended, is assigned to errs or to allEvents.
TaskAppend(c) ==
    /\ tpc[c] = "append"
    /\ IF tres[c].err
       THEN /\ errs' = Append(tres[c].seen, c)
            /\ UNCHANGED allEvents
       ELSE /\ allEvents' = tres[c].seen \o tres[c].events
            /\ UNCHANGED errs
    /\ tres' = [tres EXCEPT ![c].seen = <<>>]
    /\ tpc' = [tpc EXCEPT ![c] = "unlock"]
    /\ UNCHANGED <<storeVars, parseVars, fetchVars, timezone, req, hpc, qrange, spawned, srcOutcome, mu,
                   wg, resp>>

\* handler.go:124-125 and 130-131: mu.Unlock(), the return, and the deferred
\* wg.Done().
TaskUnlock(c) ==
    /\ tpc[c] = "unlock"
    /\ mu' = NoOne
    /\ wg' = wg - 1
    /\ tpc' = [tpc EXCEPT ![c] = "done"]
    /\ UNCHANGED <<storeVars, parseVars, fetchVars, timezone, req, hpc, qrange, spawned, srcOutcome, tres,
                   allEvents, errs, resp>>

\* wg.Wait() that returns whatever the counter is.
Wait_NoJoin ==
    /\ hpc = "wait"
    /\ hpc' = "respond"
    /\ UNCHANGED <<storeVars, parseVars, fetchVars, timezone, req, qrange, spawned, srcOutcome, tpc, tres,
                   allEvents, errs, mu, wg, resp>>

\* handler.go:134: wg.Wait() returns once the counter is zero.
Wait ==
    /\ hpc = "wait"
    /\ wg = 0
    /\ hpc' = "respond"
    /\ UNCHANGED <<storeVars, parseVars, fetchVars, timezone, req, qrange, spawned, srcOutcome, tpc, tres,
                   allEvents, errs, mu, wg, resp>>

\* The all-failed test with its second comparison inverted.
AllFailed_Inverted(e, a) == Len(e) > 0 /\ Len(a) # 0

\* handler.go:137: the test for "all calendars failed".
AllFailed(e, a) == Len(e) > 0 /\ Len(a) = 0

\* handler.go:136-155: the all-failed check, the sort and the response.
Respond ==
    /\ hpc = "respond"
    /\ IF AllFailed(errs, allEvents)
       THEN /\ resp' = Append(resp, [code |-> 500, events |-> <<>>])
            /\ UNCHANGED allEvents
       ELSE /\ allEvents' = SortEvents(allEvents)
            /\ resp' = Append(resp, [code |-> 200, events |-> SortEvents(allEvents)])
    /\ hpc' = "done"
    /\ UNCHANGED <<storeVars, parseVars, fetchVars, timezone, req, qrange, spawned, srcOutcome, tpc, tres, errs,
                   mu, wg>>

GetEventsNext ==
    \/ ParseQuery
    \/ SpawnNext
    \/ \E c \in Sources : TaskFetch(c)
    \/ \E c \in Sources : TaskLock(c)
    \/ \E c \in Sources : TaskRead(c)
    \/ \E c \in Sources : TaskAppend(c)
    \/ \E c \in Sources : TaskUnlock(c)
    \/ Wait
    \/ Respond

Init == InitGetEvents
Next == GetEventsNext
Spec == Init /\ [][Next]_vars

(***************************************************************************)
(* Client.parseEvent on one component (specification SpecParse): the       *)
(* component, the display timezone and the range of the request are drawn, *)
(* and parseEvent runs through expandRecurringEvent step by step.          *)
(***************************************************************************)
WindowDays == 7      \* days of the longer range a request asks for
RuleCount  == 3      \* the COUNT of the rules that have one

Day(d)      == d * SecondsPerDay
At(d, h)    == d * SecondsPerDay + h * SecondsPerHour

\* The ranges requested: WindowDays days from day 8 on, and day 10 alone.
Windows == {<<8, 8 + WindowDays - 1>>, <<10, 10>>}

StartProps ==
    { Prop(Text("DATE", Day(1)), "DATE", ""),        \* DTSTART;VALUE=DATE
      Prop(Text("LOCAL", At(1, 9)), "", ""),         \* wall clock, 09:00
      Prop(Text("LOCAL", Day(1)), "", ""),           \* wall clock, 00:00
      Prop(Text("UTCZ", At(1, 9)), "", ""),          \* 09:00Z
      Prop(Text("LOCAL", At(1, 9)), "", "East") }    \* TZID of a known zone

EndProps == { NoProp, Prop(Text("LOCAL", At(1, 10)), "", "") }

PT1H == <<80, 84, 49, 72>>
P1D  == <<80, 49, 68>>
PXD  == <<80, 88, 68>>

Durations == { NoText, SomeText(PT1H), SomeText(P1D) }

Rules == { NoRule, BadRule, Rule("WEEKLY", 0), Rule("DAILY", 0), Rule("HOURLY", 0),
           Rule("WEEKLY", RuleCount) }

ExDateProps ==
    { NoExDate,
      ExDate(<<Text("DATE", Day(8))>>),
      ExDate(<<Text("UTCZ", At(8, 9))>>),
      ExDate(<<Text("LOCAL", At(8, 9))>>),
      ExDate(<<Text("BAD", 0), Text("LOCAL", At(8, 9))>>) }

SummaryText == <<83, 92, 44, 117>>     \* S\,u

ParseComps ==
    { Component("VEVENT", SomeText(<<117>>), SomeText(SummaryText), st, en, du, ru, ex) :
        st \in StartProps, en \in EndProps, du \in Durations, ru \in Rules,
        ex \in ExDateProps }
    \cup
    { Component("VEVENT", NoText, NoText, Prop(Text("DATE", Day(9)), "DATE", ""),
                NoProp, NoText, NoRule, NoExDate),
      Component("VEVENT", SomeText(<<117>>), NoText, NoProp, NoProp, NoText,
                Rule("DAILY", 0), NoExDate),
      Component("VEVENT", SomeText(<<117>>), NoText, Prop(Text("DATE", Day(9)), "", ""),
                NoProp, NoText, NoRule, NoExDate),
      Component("VEVENT", SomeText(<<117>>), NoText, Prop(Text("LOCAL", At(9, 9)), "", ""),
                Prop(Text("BAD", 0), "", ""), NoText, NoRule, NoExDate),
      Component("VEVENT", SomeText(<<117>>), NoText, Prop(Text("LOCAL", At(9, 9)), "", ""),
                NoProp, SomeText(PXD), Rule("DAILY", 0), NoExDate) }

CalendarOfParse == 1

InitParse ==
    /\ IdleStore
    /\ timezone \in Zones
    /\ \E w \in Windows : qrange = GetEventsRange(timezone, w[1], w[2])
    /\ pcomp \in ParseComps
    /\ ppc = "head"
    /\ head = IdleHead
    /\ rset = IdleRuleSet
    /\ occurrences = <<>>
    /\ pout = NoEvents("")
    /\ IdleGetEvents
    /\ IdleFetchEvents

\* client.go:163-245: parseEvent up to the call of expandRecurringEvent, or
\* to its return when the component fails or does not recur.
ParseEventHead ==
    /\ ppc = "head"
    /\ LET h == EventHead(pcomp, timezone) IN
         IF h.err # ""
         THEN /\ pout' = NoEvents(h.err)
              /\ ppc' = "done"
              /\ UNCHANGED head
         ELSE IF ~pcomp.rrule.present
         THEN /\ pout' = [err |-> "", events |-> <<SingleEvent(h, CalendarOfParse)>>]
              /\ ppc' = "done"
              /\ head' = h
         ELSE /\ head' = h
              /\ ppc' = "rule"
              /\ UNCHANGED pout
    /\ UNCHANGED <<storeVars, timezone, qrange, aggVars, fetchVars, pcomp, rset, occurrences>>

\* recurring.go:32-79: the rule and its exclusion dates.
ExpandRule ==
    /\ ppc = "rule"
    /\ LET rs == RuleSet(pcomp, head.startTime, head.allDay, timezone) IN
         IF ~rs.ok
         THEN /\ pout' = NoEvents("rrule")
              /\ ppc' = "done"
              /\ UNCHANGED rset
         ELSE /\ rset' = rs
              /\ ppc' = "between"
              /\ UNCHANGED pout
    /\ UNCHANGED <<storeVars, timezone, qrange, aggVars, fetchVars, pcomp, head, occurrences>>

\* recurring.go:81-86: the occurrences of the buffered range.
ExpandBetween ==
    /\ ppc = "between"
    /\ occurrences' = BufferedOccurrences(rset, qrange.start, qrange.end)
    /\ ppc' = "limit"
    /\ UNCHANGED <<storeVars, timezone, qrange, aggVars, fetchVars, pcomp, head, rset, pout>>

\* recurring.go:88-92: the limit.
ExpandLimit ==
    /\ ppc = "limit"
    /\ occurrences' = LimitOccurrences(occurrences)
    /\ ppc' = "materialize"
    /\ UNCHANGED <<storeVars, timezone, qrange, aggVars, fetchVars, pcomp, head, rset, pout>>

\* recurring.go:94-126: the events, and the return.
ExpandMaterialize ==
    /\ ppc = "materialize"
    /\ pout' = [err |-> "",
                events |-> Materialize(occurrences, head.uid, head.summary,
                               head.description, head.location, head.startTime,
                               head.endTime, head.allDay, qrange.start, qrange.end,
                               timezone, CalendarOfParse)]
    /\ ppc' = "done"
    /\ UNCHANGED <<storeVars, timezone, qrange, aggVars, fetchVars, pcomp, head, rset, occurrences>>

ParseNext ==
    \/ ParseEventHead
    \/ ExpandRule
    \/ ExpandBetween
    \/ ExpandLimit
    \/ ExpandMaterialize

SpecParse == InitParse /\ [][ParseNext]_vars

(***************************************************************************)
(* Client.FetchEvents on one answer of the server (specification           *)
(* SpecFetch): the calendar objects are parsed one by one and the events   *)
(* sorted.  Lists of more than 12 events are sorted as the shorter ones    *)
(* are: the library's other algorithm differs in the order of events that  *)
(* tie only, and here two events that tie are the same event.              *)
(***************************************************************************)
MaxObjects == 2      \* calendar objects in one answer of the server

Uid(b) == SomeText(<<b>>)

GoodTimed   == Component("VEVENT", Uid(97), SomeText(<<97>>),
                   Prop(Text("LOCAL", At(9, 9)), "", ""), NoProp, NoText, NoRule, NoExDate)
GoodAllDay  == Component("VEVENT", Uid(98), SomeText(<<98>>),
                   Prop(Text("DATE", Day(10)), "DATE", ""), NoProp, NoText, NoRule, NoExDate)
GoodWeekly  == Component("VEVENT", Uid(119), SomeText(<<119>>),
                   Prop(Text("UTCZ", At(1, 9)), "", ""), NoProp, SomeText(PT1H),
                   Rule("WEEKLY", 0), NoExDate)
DailyExDate == Component("VEVENT", Uid(120), SomeText(<<120>>),
                   Prop(Text("LOCAL", At(6, 9)), "", ""), NoProp, NoText,
                   Rule("DAILY", 0),
                   ExDate(<<Text("BAD", 0), Text("LOCAL", At(9, 9)), Text("BAD", 0),
                            Text("LOCAL", At(11, 9))>>))
BadRuleSeries == Component("VEVENT", Uid(114), SomeText(<<114>>),
                   Prop(Text("LOCAL", At(9, 10)), "", ""), NoProp, NoText, BadRule, NoExDate)
MissingUID  == Component("VEVENT", NoText, SomeText(<<99>>),
                   Prop(Text("LOCAL", At(9, 11)), "", ""), NoProp, NoText, NoRule, NoExDate)
MissingStart == Component("VEVENT", Uid(100), SomeText(<<100>>),
                   NoProp, NoProp, NoText, NoRule, NoExDate)
BadStart    == Component("VEVENT", Uid(101), SomeText(<<101>>),
                   Prop(Text("BAD", 0), "", ""), NoProp, NoText, NoRule, NoExDate)
BadEnd      == Component("VEVENT", Uid(102), SomeText(<<102>>),
                   Prop(Text("LOCAL", At(9, 12)), "", ""), Prop(Text("DATE", Day(9)), "", ""),
                   NoText, NoRule, NoExDate)
BadDuration == Component("VEVENT", Uid(103), SomeText(<<103>>),
                   Prop(Text("LOCAL", At(9, 13)), "", ""), NoProp, SomeText(PXD),
                   Rule("WEEKLY", 0), NoExDate)
TimeZoneComp == Component("VTIMEZONE", NoText, NoText, NoProp, NoProp, NoText, NoRule, NoExDate)

FetchComps == { GoodTimed, GoodAllDay, GoodWeekly, DailyExDate, BadRuleSeries,
                MissingUID, MissingStart, BadStart, BadEnd, BadDuration }

Object(children) == [hasData |-> TRUE, children |-> children]

\* The objects of an answer: one event each, or several components, or no
\* data at all.
Objects ==
    { Object(<<c>>) : c \in FetchComps }
    \cup
    { [hasData |-> FALSE, children |-> <<>>],
      Object(<<TimeZoneComp, GoodTimed>>),
      Object(<<BadStart, GoodAllDay, MissingUID>>),
      Object(<<BadRuleSeries, DailyExDate, BadDuration>>),
      Object(<<GoodWeekly, BadEnd, GoodTimed>>) }

CalendarOfFetch == 1

InitFetch ==
    /\ IdleStore
    /\ timezone \in Zones
    /\ qrange = GetEventsRange(timezone, 8, 8 + WindowDays - 1)
    /\ server \in {[err |-> TRUE, objects |-> <<>>]}
                  \cup {[err |-> FALSE, objects |-> o] :
                           o \in UNION {[1..n -> Objects] : n \in 0..MaxObjects}}
    /\ fpc = "query"
    /\ fidx = 0
    /\ fevents = <<>>
    /\ fout = NoEvents("")
    /\ IdleGetEvents
    /\ IdleParseEvent

\* client.go:106-111: QueryCalendar, and the return on its error.
FetchQuery ==
    /\ fpc = "query"
    /\ IF server.err
       THEN /\ fout' = NoEvents("query")
            /\ fpc' = "done"
       ELSE /\ fpc' = "loop"
            /\ UNCHANGED fout
    /\ UNCHANGED <<storeVars, timezone, qrange, aggVars, parseVars, server, fidx, fevents>>

\* client.go:115-123: one turn of the loop over the objects.
FetchParseObject ==
    /\ fpc = "loop"
    /\ fidx < Len(server.objects)
    /\ fevents' = fevents \o Parsed(parseCalendarObject(server.objects[fidx + 1],
                                  qrange.start, qrange.end, timezone, CalendarOfFetch))
    /\ fidx' = fidx + 1
    /\ UNCHANGED <<storeVars, timezone, qrange, aggVars, parseVars, server, fpc, fout>>

\* client.go:125-128: the sort and the return.
FetchSort ==
    /\ fpc = "loop"
    /\ fidx = Len(server.objects)
    /\ fout' = [err |-> "", events |-> SortEvents(fevents)]
    /\ fpc' = "done"
    /\ UNCHANGED <<storeVars, timezone, qrange, aggVars, parseVars, server, fidx, fevents>>

FetchNext ==
    \/ FetchQuery
    \/ FetchParseObject
    \/ FetchSort

SpecFetch == InitFetch /\ [][FetchNext]_vars

(***************************************************************************)
(* Events.Less and sort.Sort in FetchEvents (specification SpecOrder): the *)
(* server answers with single events of every combination of all-day flag, *)
(* start and summary, in any order, and FetchEvents parses and sorts them. *)
(***************************************************************************)
MaxSorted == 3       \* events in one answer of the server

\* A single event on the day d, all-day or at 09:00, with a one-byte summary.
OrderComp(uid, allDay, d, summary) ==
    Component("VEVENT", Uid(uid), SomeText(<<summary>>),
              IF allDay THEN Prop(Text("DATE", Day(d)), "DATE", "")
              ELSE Prop(Text("LOCAL", At(d, 9)), "", ""),
              NoProp, NoText, NoRule, NoExDate)

\* One event for each combination, and one more that ties with another on
\* the all-day flag, the start and the summary under a UID of its own.
OrderComps ==
    { OrderComp(65 + (IF allDay THEN 4 ELSE 0) + 2 * (d - 9) + (summary - 97),
                allDay, d, summary) :
        allDay \in BOOLEAN, d \in {9, 10}, summary \in {97, 98} }
    \cup { OrderComp(90, FALSE, 9, 97) }

InitOrder ==
    /\ IdleStore
    /\ timezone = ZoneWest
    /\ qrange = GetEventsRange(timezone, 8, 8 + WindowDays - 1)
    /\ server \in {[err |-> TRUE, objects |-> <<>>]}
                  \cup {[err |-> FALSE, objects |-> o] :
                           o \in UNION {[1..n -> {Object(<<c>>) : c \in OrderComps}] :
                                           n \in 0..MaxSorted}}
    /\ fpc = "query"
    /\ fidx = 0
    /\ fevents = <<>>
    /\ fout = NoEvents("")
    /\ IdleGetEvents
    /\ IdleParseEvent

SpecOrder == InitOrder /\ [][FetchNext]_vars

(***************************************************************************)
(* The text, the start value and the duration of one event (specification  *)
(* SpecHead): parseEvent reads a single event whose SUMMARY, DTSTART or    *)
(* DURATION is drawn from the texts and the values below.                  *)
(***************************************************************************)
MaxText     == 3     \* bytes of a SUMMARY before it is escaped
MaxDuration == 4     \* bytes of a DURATION

TextsUpTo(bytes, n) == UNION {[1..k -> bytes] : k \in 0..n}

TextBytes == {Backslash, Comma, Semicolon, LowerN, UpperN, Newline, 97}
PlainTexts == TextsUpTo(TextBytes, MaxText)

\* The escaping of RFC 5545 TEXT that unescapeICalText undoes (client.go:310).
EscapeByte(b) ==
    IF b \in {Comma, Semicolon, Backslash} THEN <<Backslash, b>>
    ELSE IF b = Newline THEN <<Backslash, LowerN>>
    ELSE <<b>>

RECURSIVE Escape(_)
Escape(x) == IF x = <<>> THEN <<>> ELSE EscapeByte(Head(x)) \o Escape(Tail(x))

\* Each text with its escaped form.
EscapedPairs == {<<Escape(x), x>> : x \in PlainTexts}

SummaryTexts == PlainTexts \cup {pair[1] : pair \in EscapedPairs}

HeadStart == Prop(Text("LOCAL", At(9, 9)), "", "")

TextComp(summary) ==
    Component("VEVENT", Uid(97), SomeText(summary), HeadStart, NoProp, NoText,
              NoRule, NoExDate)

\* Start values: a date, a wall-clock date-time, one in the hour that the
\* zones with a transition skip or repeat, a date-time in UTC, and a value
\* of no known form; each with every VALUE and TZID parameter.
ValueTexts ==
    { Text("DATE", Day(9)), Text("LOCAL", At(9, 9)), Text("LOCAL", At(10, 2) + 1800),
      Text("UTCZ", At(9, 9)), Text("BAD", 0) }

ValueProps ==
    { Prop(v, valueType, tzid) :
        v \in ValueTexts, valueType \in {"", "DATE", "DATE-TIME"},
        tzid \in {"", "East", "West", "Spring", "Fall", "Nowhere"} }

ValueComp(prop) ==
    Component("VEVENT", Uid(97), SomeText(<<97>>), prop, NoProp, NoText,
              NoRule, NoExDate)

DurationBytes ==
    {LetterP, LetterT, LetterW, LetterD, LetterH, LetterM, LetterS, 49}

DurationTexts ==
    TextsUpTo(DurationBytes, MaxDuration)
    \cup { <<Minus, LetterP, 49, LetterD>>,
           <<LetterP, LetterT, 49, LetterH, LetterD>>,
           <<LetterP, 49, LetterD, LetterT, 49, LetterH>>,
           <<LetterP, LetterT, 49, LetterH, 49, LetterM, 49, LetterS>> }

DurationComp(value) ==
    Component("VEVENT", Uid(97), SomeText(<<97>>), HeadStart, NoProp,
              SomeText(value), NoRule, NoExDate)

\* The display timezone and the component of a run.
HeadCases ==
    ({ZoneUTC} \X {TextComp(t) : t \in SummaryTexts})
    \cup (Zones \X {ValueComp(v) : v \in ValueProps})
    \cup ({ZoneUTC} \X {DurationComp(d) : d \in DurationTexts})

InitHead ==
    /\ IdleStore
    /\ \E case \in HeadCases : timezone = case[1] /\ pcomp = case[2]
    /\ qrange = GetEventsRange(timezone, 8, 8 + WindowDays - 1)
    /\ ppc = "head"
    /\ head = IdleHead
    /\ rset = IdleRuleSet
    /\ occurrences = <<>>
    /\ pout = NoEvents("")
    /\ IdleGetEvents
    /\ IdleFetchEvents

HeadNext == ParseEventHead

SpecHead == InitHead /\ [][HeadNext]_vars

(***************************************************************************)
(* Properties of Handler.GetEvents (specification Spec).                   *)
(***************************************************************************)
ValidRequest == req.start.text = "date" /\ req.end.text = "date"

Failed    == {c \in Sources : srcOutcome[c].err}
Surviving == Sources \ Failed

Range(s) == {s[i] : i \in DOMAIN s}
Count(s, e) == Cardinality({i \in DOMAIN s : s[i] = e})
SameElements(s, t) ==
    /\ Len(s) = Len(t)
    /\ \A e \in Range(s) \cup Range(t) : Count(s, e) = Count(t, e)

RECURSIVE Concat(_, _)
Concat(f, S) ==
    IF S = {} THEN <<>>
    ELSE LET c == CHOOSE x \in S : TRUE IN f[c].events \o Concat(f, S \ {c})

\* C1: with some but not all sources failing, whatever lists the surviving
\* sources return (empty ones included), the request is answered once, with
\* success, and the list holds exactly the surviving sources' occurrences.
C1_PartialFailureSucceeds ==
    (hpc = "done" /\ ValidRequest /\ Failed # {} /\ Surviving # {})
        => /\ Len(resp) = 1
           /\ resp[1].code = 200
           /\ SameElements(resp[1].events, Concat(srcOutcome, Surviving))

\* C2: when every configured source fails the caller receives exactly one
\* response, the aggregate error, and no occurrence list.
C2_AllFailedOneError ==
    (hpc = "done" /\ ValidRequest /\ Surviving = {})
        => /\ Len(resp) = 1
           /\ resp[1].code = 500
           /\ resp[1].events = <<>>

C2_Witness ==
    /\ hpc = "done" /\ ValidRequest /\ Surviving = {} /\ Len(errs) = NumSources
    /\ Len(resp) = 1 /\ resp[1].code = 500

\* The ordering policy, stated on a pair with a before b in the list.
InPolicyOrder(a, b) ==
    /\ ~(~a.AllDay /\ b.AllDay)
    /\ a.AllDay = b.AllDay => a.Start <= b.Start
    /\ (a.AllDay = b.AllDay /\ a.Start = b.Start) => ~StrLess(b.Summary, a.Summary)

\* C3: the list of every successful response is in policy order: all-day
\* before timed, then ascending start, then ascending summary.
C3_ResponseSorted ==
    \A r \in DOMAIN resp :
        resp[r].code = 200 =>
            \A i, j \in DOMAIN resp[r].events :
                i < j => InPolicyOrder(resp[r].events[i], resp[r].events[j])

\* A successful response of three events or more, holding an all-day event
\* that starts after a timed one and two events that tie on the start, which
\* no concatenation of the fetched lists equals.
C3_Witness ==
    /\ hpc = "done" /\ Len(resp) = 1 /\ resp[1].code = 200
    /\ LET l == resp[1].events IN
        /\ Len(l) >= 3
        /\ \E i, j \in DOMAIN l : l[i].AllDay /\ ~l[j].AllDay /\ l[i].Start > l[j].Start
        /\ \E i, j \in DOMAIN l :
              /\ i # j /\ l[i].AllDay = l[j].AllDay /\ l[i].Start = l[j].Start
              /\ l[i].Summary # l[j].Summary
        /\ l # srcOutcome[1].events \o srcOutcome[2].events
        /\ l # srcOutcome[2].events \o srcOutcome[1].events

(***************************************************************************)
(* Properties of expandRecurringEvent (specification SpecParse).           *)
(***************************************************************************)
\* expandRecurringEvent has returned a list of events.
Expanded == ppc = "done" /\ pcomp.rrule.present /\ rset.ok /\ pout.err = ""

SeriesDuration == head.endTime - head.startTime
ReturnedStarts == {pout.events[i].Start : i \in DOMAIN pout.events}

\* C4: of the occurrences kept for materialization, those returned are
\* exactly the ones whose interval meets the half-open range
\* [queryStart, queryEnd): one that starts at queryEnd or later, or ends at
\* queryStart or earlier, is dropped, and every other one is returned.
C4_HalfOpenWindow ==
    Expanded =>
        \A t \in Range(occurrences) :
            t \in ReturnedStarts
                <=> ~(t >= qrange.end \/ t + SeriesDuration <= qrange.start)

\* C5: every occurrence of an all-day weekly series starts, in the display
\* timezone, on a date a whole number of weeks after the date of DTSTART.
C5_AllDayWeeklyNoDrift ==
    (Expanded /\ head.allDay /\ pcomp.rrule.freq = "WEEKLY") =>
        \A i \in DOMAIN pout.events :
            (DayOf(WallClock(timezone, pout.events[i].Start))
                - DayOf(pcomp.dtstart.value.w)) % 7 = 0

\* An exclusion entry read as a start value of its kind is read: a bare date
\* as a VALUE=DATE property, a date-time as a property with no parameter.
AsStartValue(entry) ==
    parseDateTime(Prop(entry, IF entry.form = LayoutDate THEN "DATE" ELSE "", ""),
                  timezone)

\* C6: every exclusion entry is read as a start value of its kind is, and no
\* returned occurrence starts at the instant of an exclusion entry.
C6_ExDateAsStartValue ==
    (Expanded /\ pcomp.exdate.present) =>
        \A k \in DOMAIN pcomp.exdate.entries :
            AsStartValue(pcomp.exdate.entries[k]).ok =>
                AsStartValue(pcomp.exdate.entries[k]).t \notin ReturnedStarts

\* The candidate starts of the buffered range, from the rule set alone.
BufferedCandidates ==
    LET bufferStart == qrange.start - BufferDays * SecondsPerDay
        bufferEnd   == qrange.end + BufferDays * SecondsPerDay
        upto        == (bufferEnd - rset.dtstart) \div rset.period
        last        == IF rset.count > 0 THEN Min(upto, rset.count - 1) ELSE upto
    IN  {t \in {rset.dtstart + k * rset.period : k \in 0..last} :
            bufferStart <= t /\ t <= bufferEnd /\ t \notin rset.exdates}

\* C7: past the limit, the occurrences kept are the 1000 earliest
\* candidates of the buffered range, in ascending order; up to 1000
\* candidates, all are kept.
C7_LimitKeepsEarliest ==
    (ppc = "materialize" \/ Expanded) =>
        /\ Len(occurrences) = Min(maxOccurrences, Cardinality(BufferedCandidates))
        /\ \A i \in 1..(Len(occurrences) - 1) : occurrences[i] < occurrences[i + 1]
        /\ Range(occurrences) \subseteq BufferedCandidates
        /\ \A t \in BufferedCandidates \ Range(occurrences) :
              t > occurrences[Len(occurrences)]

\* The limit has cut a list of more than 1000 candidates.
C7_Witness ==
    /\ ppc = "materialize"
    /\ Cardinality(BufferedCandidates) > maxOccurrences
    /\ Len(occurrences) = maxOccurrences

\* C8: the occurrences returned for one series have pairwise distinct UIDs.
C8_DistinctUIDs ==
    Expanded =>
        Cardinality({pout.events[i].UID : i \in DOMAIN pout.events}) = Len(pout.events)

(***************************************************************************)
(* Properties of FetchEvents (specification SpecFetch).                    *)
(***************************************************************************)
Fetched == fpc = "done" /\ ~server.err

\* The event definitions of the answer, in the order FetchEvents meets them.
RECURSIVE Definitions(_)
Definitions(objects) ==
    IF objects = <<>> THEN <<>>
    ELSE LET IsEvent(c) == c.name = "VEVENT"
         IN  (IF Head(objects).hasData
              THEN SelectSeq(Head(objects).children, IsEvent) ELSE <<>>)
             \o Definitions(Tail(objects))

Batch == Definitions(server.objects)

\* What the claims call a malformed definition.
Malformed(c) ==
    \/ ~c.uid.present
    \/ ~c.dtstart.present
    \/ ~parseDateTime(c.dtstart, timezone).ok
    \/ c.dtend.present /\ ~parseDateTime(c.dtend, timezone).ok
    \/ c.duration.present /\ ~parseDuration(c.duration.value).ok

BadRuled(c) == c.rrule.present /\ ~c.rrule.valid

\* The events a definition yields when it is parsed alone.
Alone(c) == parseEvent(c, qrange.start, qrange.end, timezone, CalendarOfFetch).events

\* The list returned holds the events of the definition c, parsed as d is
\* alone, once for each time c is in the batch.
ReturnedAs(c, d) ==
    /\ \A e \in Range(Alone(d)) :
          Count(fout.events, e) = Count(Batch, c) * Count(Alone(d), e)
    /\ Cardinality({i \in DOMAIN fout.events : fout.events[i].UID[1] = c.uid.value})
          = Count(Batch, c) * Len(Alone(d))

Unparsable(entry) == entry.form \notin {LayoutDate, LayoutLocal, LayoutUTCZ}

\* The definition c without the exclusion entries that do not parse.
Cleaned(c) ==
    LET Parsable(entry) == ~Unparsable(entry)
    IN  [c EXCEPT !.exdate.entries = SelectSeq(c.exdate.entries, Parsable)]

\* C9: a series whose rule does not parse contributes no occurrence and
\* every other event of the fetch is returned; a series with an exclusion
\* entry that does not parse is expanded as it is without that entry.
C9_BadRuleAndBadExDateAreLocal ==
    Fetched =>
        /\ fout.err = ""
        /\ \A i \in DOMAIN Batch :
              LET c == Batch[i] IN
                 /\ (BadRuled(c) /\ ~Malformed(c)) =>
                        \A k \in DOMAIN fout.events : fout.events[k].UID[1] # c.uid.value
                 /\ (~BadRuled(c) /\ ~Malformed(c)) => ReturnedAs(c, Cleaned(c))

\* A series with a bad rule before and after other events that are returned,
\* and a series returned with its parsable exclusions applied.
C9_Witness ==
    /\ Fetched
    /\ \E i, j, k \in DOMAIN Batch :
          /\ i < j /\ j < k
          /\ ~BadRuled(Batch[i]) /\ ~Malformed(Batch[i]) /\ Alone(Batch[i]) # <<>>
          /\ BadRuled(Batch[j])
          /\ ~BadRuled(Batch[k]) /\ ~Malformed(Batch[k]) /\ Alone(Batch[k]) # <<>>
    /\ \E i \in DOMAIN Batch :
          /\ \E k \in DOMAIN Batch[i].exdate.entries : Unparsable(Batch[i].exdate.entries[k])
          /\ Alone(Batch[i]) # <<>>
          /\ \E t \in ExDates(Batch[i].exdate, timezone) :
                /\ qrange.start < t /\ t < qrange.end
                /\ \A k \in DOMAIN fout.events : fout.events[k].Start # t

\* C10: a definition without UID or DTSTART, or with a malformed DTSTART,
\* DTEND or DURATION, fails alone: FetchEvents succeeds and returns the
\* occurrences of every well-formed definition, wherever it is in the batch.
C10_MalformedFailsAlone ==
    Fetched =>
        /\ fout.err = ""
        /\ \A i \in DOMAIN Batch :
              (~Malformed(Batch[i]) /\ ~BadRuled(Batch[i]))
                  => ReturnedAs(Batch[i], Batch[i])

\* A malformed definition before a well-formed one and another after it, of
\* each of the five kinds in some batch or other.
C10_Witness ==
    /\ Fetched
    /\ Len(fout.events) > 0
    /\ \E i, j, k \in DOMAIN Batch :
          /\ i < j /\ j < k
          /\ Malformed(Batch[i]) /\ Malformed(Batch[k])
          /\ ~Malformed(Batch[j]) /\ ~BadRuled(Batch[j]) /\ Alone(Batch[j]) # <<>>

(***************************************************************************)
(* Further properties of Handler.GetEvents (specification Spec).           *)
(***************************************************************************)
\* The range of the request is invalid: a parameter is missing or is no
\* date, or the start date is later than the end date.
InvalidWindow == ~ValidRequest \/ req.start.day > req.end.day

\* C11: a request with an invalid range starts no fetch task, and is answered
\* with an error once.
C11_InvalidWindowRejected ==
    InvalidWindow =>
        /\ spawned = 0
        /\ \A c \in Sources : tpc[c] = "unstarted"
        /\ hpc = "done" => (Len(resp) = 1 /\ resp[1].code = 400)

\* Every fetch goroutine of the request has returned.
AllTasksDone == \A c \in Sources : tpc[c] = "done"

\* C14: the all-failed check, the sort and the response come after the full
\* join: the handler is past wg.Wait() and a response is written only when
\* every fetch goroutine has returned, and a request is answered exactly once.
C14_FullJoin ==
    /\ Len(resp) <= 1
    /\ hpc = "done" => Len(resp) = 1
    /\ hpc = "respond" => AllTasksDone
    /\ (ValidRequest /\ resp # <<>>) => AllTasksDone

\* A request answered after the join, with events of one source and the
\* failure of the other.
C14_Witness ==
    /\ hpc = "done" /\ ValidRequest /\ AllTasksDone
    /\ Len(resp) = 1 /\ resp[1].code = 200
    /\ Failed # {} /\ resp[1].events # <<>>

\* C15: a goroutine reads and writes the shared slices only while it holds
\* the mutex, and after the join allEvents holds exactly the events of the
\* sources that succeeded, each as often as fetched, and errs exactly one
\* error for each source that failed.
C15_MutexProtectsShared ==
    /\ \A c \in Sources : tpc[c] \in {"read", "append", "unlock"} => mu = c
    /\ (ValidRequest /\ hpc \in {"respond", "done"}) =>
          /\ SameElements(allEvents, Concat(srcOutcome, Surviving))
          /\ Len(errs) = Cardinality(Failed)
          /\ Range(errs) = Failed

\* Both sources succeed with events, and the second goroutine appended first.
C15_Witness ==
    /\ hpc = "respond" /\ ValidRequest
    /\ \A c \in Sources : ~srcOutcome[c].err /\ srcOutcome[c].events # <<>>
    /\ allEvents # Concat(srcOutcome, Sources)
    /\ SameElements(allEvents, Concat(srcOutcome, Sources))

(***************************************************************************)
(* Properties of Events.Less and of the sort (specification SpecOrder).    *)
(***************************************************************************)
Incomparable(a, b) == ~Less(a, b) /\ ~Less(b, a)

\* C12: Less is a strict weak ordering of the events FetchEvents sorts:
\* irreflexive, asymmetric, transitive, and with transitive incomparability.
C12_LessStrictWeakOrder ==
    \A a, b, c \in Range(fevents) :
        /\ ~Less(a, a)
        /\ Less(a, b) => ~Less(b, a)
        /\ (Less(a, b) /\ Less(b, c)) => Less(a, c)
        /\ (Incomparable(a, b) /\ Incomparable(b, c)) => Incomparable(a, c)

\* Three events sorted, two of which tie and the third of which differs from
\* them in the all-day flag.
C12_Witness ==
    /\ fpc = "done" /\ Len(fout.events) = 3
    /\ \E a, b, c \in Range(fevents) :
          /\ a # b /\ Incomparable(a, b)
          /\ c.AllDay # a.AllDay /\ Less(c, a)

\* A list is in policy order.
InOrder(l) == \A i, j \in DOMAIN l : i < j => InPolicyOrder(l[i], l[j])

\* C13: the sort leaves a list that is already in policy order as it is,
\* events that tie on flag, start and summary under different UIDs included.
C13_SortIdempotent ==
    (fpc = "done" /\ ~server.err /\ InOrder(fevents)) => fout.events = fevents

\* A list in policy order is sorted that holds two events with different
\* UIDs tying on flag, start and summary.
C13_Witness ==
    /\ fpc = "done" /\ ~server.err /\ InOrder(fevents) /\ Len(fevents) = 3
    /\ \E i \in 1..2 :
          /\ Incomparable(fevents[i], fevents[i + 1])
          /\ fevents[i].UID # fevents[i + 1].UID
    /\ fout.events = fevents

(***************************************************************************)
(* Properties of unescapeICalText (specification SpecHead).                *)
(***************************************************************************)
\* parseEvent has returned the single event of the component.
HeadDone == ppc = "done" /\ pout.err = ""

\* The run is one of those that draw the SUMMARY.
TextCase == pcomp.dtstart = HeadStart /\ ~pcomp.duration.present

\* The reference scan, byte by byte: out is the text emitted so far, esc
\* tells that the byte before was a backslash not yet accounted for.
ScanByte(st, b) ==
    IF st.esc
    THEN IF b \in {Comma, Semicolon, Backslash}
         THEN [out |-> Append(st.out, b), esc |-> FALSE]
         ELSE IF b \in {LowerN, UpperN}
         THEN [out |-> Append(st.out, Newline), esc |-> FALSE]
         ELSE [out |-> st.out \o <<Backslash, b>>, esc |-> FALSE]
    ELSE IF b = Backslash THEN [out |-> st.out, esc |-> TRUE]
    ELSE [out |-> Append(st.out, b), esc |-> FALSE]

RECURSIVE ScanFrom(_, _, _)
ScanFrom(s, i, st) == IF i > Len(s) THEN st ELSE ScanFrom(s, i + 1, ScanByte(st, s[i]))

ReferenceScan(s) ==
    LET end == ScanFrom(s, 1, [out |-> <<>>, esc |-> FALSE])
    IN  IF end.esc THEN Append(end.out, Backslash) ELSE end.out

\* C16: unescapeICalText never fails and returns what the reference scan
\* returns: a known escape pair gives its byte, a backslash before any other
\* byte or at the end is kept and the byte after it scanned in its turn.
C16_UnescapeIsReferenceScan ==
    (ppc = "done" /\ TextCase) =>
        /\ pout.err = ""
        /\ pout.events[1].Summary = ReferenceScan(pcomp.summary.value)

\* A text with an unknown escape and a backslash at its end is unescaped.
C16_Witness ==
    /\ HeadDone /\ TextCase
    /\ pcomp.summary.value = <<Backslash, 97, Backslash>>
    /\ pout.events[1].Summary = <<Backslash, 97, Backslash>>

\* C17: a text escaped and then unescaped is the text again.
C17_EscapeRoundTrip ==
    (ppc = "done" /\ TextCase) =>
        \A pair \in EscapedPairs :
            pcomp.summary.value = pair[1] =>
                (pout.err = "" /\ pout.events[1].Summary = pair[2])

\* The escaped form of a backslash, a newline and a comma is unescaped.
C17_Witness ==
    /\ HeadDone /\ TextCase
    /\ pcomp.summary.value = Escape(<<Backslash, Newline, Comma>>)
    /\ pout.events[1].Summary = <<Backslash, Newline, Comma>>

(***************************************************************************)
(* Properties of parseDateTime and parseDuration (specification SpecHead). *)
(***************************************************************************)
\* The run is one of those that draw the DTSTART.
ValueCase == pcomp.summary.value = <<97>> /\ ~pcomp.duration.present

\* The instant t shows the wall-clock reading w in loc, when an instant does.
ShowsIn(loc, t, w) ==
    (\E u \in {w - loc.std, w - loc.dst} : WallClock(loc, u) = w)
        => WallClock(loc, t) = w

\* C18: a DTSTART with VALUE=DATE is all-day and starts at 00:00:00 of its
\* date in the display timezone, whatever its TZID; any other DTSTART is not
\* all-day.
C18_DateIsMidnightOfDisplayZone ==
    (ppc = "done" /\ ValueCase) =>
        /\ (pcomp.dtstart.VALUE = "DATE" /\ pcomp.dtstart.value.form = LayoutDate) =>
              /\ pout.err = ""
              /\ pout.events[1].AllDay
              /\ WallClock(timezone, pout.events[1].Start) = pcomp.dtstart.value.w
              /\ TimeOfDay(WallClock(timezone, pout.events[1].Start)) = 0
        /\ pcomp.dtstart.VALUE # "DATE" =>
              /\ ~head.allDay
              /\ pout.err = "" => ~pout.events[1].AllDay

\* A date with the TZID of a zone west of UTC is read in a display timezone
\* east of UTC.
C18_Witness ==
    /\ HeadDone /\ ValueCase /\ timezone = ZoneEast
    /\ pcomp.dtstart.VALUE = "DATE" /\ pcomp.dtstart.TZID = "West"
    /\ pout.events[1].AllDay
    /\ pout.events[1].Start = Day(9) - 3600

\* The zone a wall-clock date-time is to be read in.
ZoneOfValue ==
    IF \E z \in Zones : z.name = pcomp.dtstart.TZID
    THEN CHOOSE z \in Zones : z.name = pcomp.dtstart.TZID
    ELSE timezone

\* C19: a date-time ending in Z is that instant of UTC, with or without
\* TZID; any other date-time is the wall clock of the zone of its TZID, or
\* of the display timezone when it has no TZID or one that names no zone;
\* no such value is an error and the time returned is in the display
\* timezone.
C19_DateTimeZones ==
    (ppc = "done" /\ ValueCase /\ pcomp.dtstart.VALUE # "DATE"
        /\ pcomp.dtstart.value.form \in {LayoutLocal, LayoutUTCZ}) =>
        /\ pout.err = ""
        /\ head.startLoc = timezone.name
        /\ pcomp.dtstart.value.form = LayoutUTCZ =>
              pout.events[1].Start = pcomp.dtstart.value.w
        /\ pcomp.dtstart.value.form = LayoutLocal =>
              ShowsIn(ZoneOfValue, pout.events[1].Start, pcomp.dtstart.value.w)

\* 09:00:00Z with the TZID of a zone east of UTC, read in a display timezone
\* west of UTC.
C19_Witness ==
    /\ HeadDone /\ ValueCase /\ timezone = ZoneWest
    /\ pcomp.dtstart.VALUE = "" /\ pcomp.dtstart.TZID = "East"
    /\ pcomp.dtstart.value = Text("UTCZ", At(9, 9))
    /\ pout.events[1].Start = At(9, 9)
    /\ head.startLoc = "West"

\* A unit letter of the text comes after no field or after a field that is
\* no number.
UnitLetters == {LetterW, LetterD, LetterH, LetterM, LetterS}

BadUnitField(value) ==
    \E i \in DOMAIN value :
        value[i] \in UnitLetters /\ (i = 1 \/ value[i - 1] \notin Digits)

\* C20: a DURATION with a unit letter that follows no number fails.
C20_BadUnitFieldFails ==
    (ppc = "done" /\ pcomp.duration.present /\ BadUnitField(pcomp.duration.value))
        => pout.err = "duration"

(***************************************************************************)
(* The end of an event (specification SpecParse).                          *)
(***************************************************************************)
\* parseEvent has read the properties of the component without an error.
HeadRead == ppc # "head" /\ head # IdleHead

\* The seconds of the durations the components carry.
SecondsOf(value) == IF value = PT1H THEN 3600 ELSE IF value = P1D THEN 86400 ELSE 0

\* C21: the end of an event is the instant of its DTEND when it has one,
\* with or without a DURATION; else its start plus its DURATION; else its
\* start plus 24 hours when it is all-day; else its start, and such a timed
\* event of no length is returned without an error.
C21_EndByPriority ==
    /\ HeadRead =>
          IF pcomp.dtend.present
          THEN /\ WallClock(timezone, head.endTime) = pcomp.dtend.value.w
               /\ head.endTime = parseDateTime(pcomp.dtend, timezone).t
          ELSE IF pcomp.duration.present
          THEN head.endTime = head.startTime + SecondsOf(pcomp.duration.value)
          ELSE IF head.allDay
          THEN head.endTime = head.startTime + SecondsPerDay
          ELSE head.endTime = head.startTime
    /\ (/\ ppc = "done" /\ pcomp.uid.present /\ ~pcomp.rrule.present
        /\ pcomp.dtstart.present /\ pcomp.dtstart.VALUE # "DATE"
        /\ pcomp.dtstart.value.form \in {LayoutLocal, LayoutUTCZ}
        /\ ~pcomp.dtend.present /\ ~pcomp.duration.present) =>
          /\ pout.err = ""
          /\ Len(pout.events) = 1
          /\ ~pout.events[1].AllDay
          /\ pout.events[1].End = pout.events[1].Start

\* A single event with a DTEND an hour after its start and a DURATION of a
\* day ends with its DTEND.
C21_Witness ==
    /\ ppc = "done" /\ pout.err = "" /\ ~pcomp.rrule.present
    /\ pcomp.dtend.present /\ pcomp.duration = SomeText(P1D)
    /\ pcomp.dtstart = Prop(Text("LOCAL", At(1, 9)), "", "")
    /\ pout.events[1].End = pout.events[1].Start + 3600

(***************************************************************************)
(* The default end of an all-day event (specification SpecFetch).          *)
(***************************************************************************)
\* The events FetchEvents returns for the all-day event of day 10, which has
\* neither DTEND nor DURATION.
AllDayDefaults ==
    {i \in DOMAIN fout.events :
        fout.events[i].UID = <<GoodAllDay.uid.value>> /\ fout.events[i].AllDay}

\* C22: an all-day event with neither DTEND nor DURATION starts at 00:00:00
\* of its date and ends at 00:00:00 of the following date, both in the
\* display timezone, also when the offset of the timezone changes on its
\* date.
C22_AllDayEndsNextMidnight ==
    (fpc = "done" /\ fout.err = "") =>
        \A i \in AllDayDefaults :
            /\ WallClock(timezone, fout.events[i].Start) = Day(10)
            /\ WallClock(timezone, fout.events[i].End) = Day(11)

(***************************************************************************)
(* The length of the occurrences of a series (specification SpecParse).    *)
(***************************************************************************)
\* C23: every occurrence returned for a series ends as long after its start
\* as the series ends after its own, in absolute time; an occurrence of a
\* timed series with neither DTEND nor DURATION ends at its start.
C23_OccurrenceKeepsDuration ==
    Expanded =>
        \A i \in DOMAIN pout.events :
            /\ pout.events[i].End - pout.events[i].Start = SeriesDuration
            /\ (~head.allDay /\ ~pcomp.dtend.present /\ ~pcomp.duration.present)
                  => pout.events[i].End = pout.events[i].Start

\* An hourly series of one hour has an occurrence on each side of the
\* transition of the display timezone, each an hour long.
C23_Witness ==
    /\ Expanded /\ timezone = ZoneFall /\ ~head.allDay
    /\ pcomp.rrule.freq = "HOURLY" /\ SeriesDuration = 3600
    /\ \E i, j \in DOMAIN pout.events :
          /\ pout.events[i].End <= ZoneFall.trans
          /\ pout.events[j].Start >= ZoneFall.trans
          /\ pout.events[j].End = pout.events[j].Start + 3600

(***************************************************************************)
(* The calendar of time.Time.  Day 0 of the model is the first of January  *)
(* of a year that is not a leap year.                                      *)
(***************************************************************************)
\* The days of the months of a year, 365 in all.
MonthLengths == <<31, 28, 31, 30, 31, 30, 31, 31, 30, 31, 30, 31>>

RECURSIVE DaysBefore(_)
DaysBefore(month) ==
    IF month = 1 THEN 0 ELSE DaysBefore(month - 1) + MonthLengths[month - 1]

\* Time.Month() and Time.Day() of a wall-clock reading.
MonthOf(w) ==
    CHOOSE m \in 1..12 :
        /\ DaysBefore(m) <= (DayOf(w) % 365)
        /\ (DayOf(w) % 365) < DaysBefore(m) + MonthLengths[m]

DayOfMonth(w) == (DayOf(w) % 365) - DaysBefore(MonthOf(w)) + 1

\* handler.go:187-188: the range of a request for a month of the year of
\* day 0; AddDate(0, 1, 0) is time.Date of the first of the next month.
GetEventsMonthRange(tz, month) ==
    [start |-> Date(tz, DaysBefore(month) * SecondsPerDay),
     end   |-> Date(tz, (DaysBefore(month) + MonthLengths[month]) * SecondsPerDay)]

(***************************************************************************)
(* expandRecurringEvent on ranges that lie more than the buffer after the  *)
(* start of the series (specification SpecWindow): the ranges of GetEvents *)
(* for a day and for WindowDays days, and the range of GetEventsMonth.     *)
(***************************************************************************)
LateDay == 40        \* first day of the ranges of GetEvents

P5W == <<80, 53, 87>>
P2D == <<80, 50, 68>>

WindowComps ==
    { Component("VEVENT", SomeText(<<117>>), SomeText(SummaryText), st, NoProp, du, ru, ex) :
        st \in { Prop(Text("DATE", Day(1)), "DATE", ""),
                 Prop(Text("LOCAL", At(1, 9)), "", ""),
                 Prop(Text("UTCZ", At(1, 9)), "", "") },
        du \in { NoText, SomeText(PT1H), SomeText(P2D), SomeText(P5W) },
        ru \in { Rule("WEEKLY", 0), Rule("DAILY", 0), Rule("HOURLY", 0),
                 Rule("DAILY", RuleCount) },
        ex \in { NoExDate, ExDate(<<Text("UTCZ", At(36, 9))>>) } }

WindowRanges(tz) ==
    { GetEventsRange(tz, LateDay, LateDay),
      GetEventsRange(tz, LateDay, LateDay + WindowDays - 1),
      GetEventsMonthRange(tz, 2) }

InitWindow ==
    /\ IdleStore
    /\ timezone \in Zones
    /\ qrange \in WindowRanges(timezone)
    /\ pcomp \in WindowComps
    /\ ppc = "head"
    /\ head = IdleHead
    /\ rset = IdleRuleSet
    /\ occurrences = <<>>
    /\ pout = NoEvents("")
    /\ IdleGetEvents
    /\ IdleFetchEvents

SpecWindow == InitWindow /\ [][ParseNext]_vars

(***************************************************************************)
(* Properties of the buffer and of the limit (specification SpecWindow).   *)
(***************************************************************************)
\* The instants of the rule before the instant t, the excluded ones left
\* out.
RuleInstantsBefore(t) ==
    LET upto == (t - 1 - rset.dtstart) \div rset.period
        last == IF rset.count > 0 THEN Min(upto, rset.count - 1) ELSE upto
    IN  {rset.dtstart + k * rset.period : k \in 0..last} \ rset.exdates

\* C24: every occurrence of the rule that is not excluded, starts before
\* queryStart and ends after it is returned, whatever the length of the
\* series.
C24_EarlyStartNotMissed ==
    Expanded =>
        \A t \in RuleInstantsBefore(qrange.start) :
            t + SeriesDuration > qrange.start => t \in ReturnedStarts

\* The candidates the limit leaves out: those of the buffered range that
\* come after its 1000 earliest.
PastLimit ==
    IF Cardinality(BufferedCandidates) <= maxOccurrences THEN {}
    ELSE {t \in BufferedCandidates : t > occurrences[Len(occurrences)]}

\* The test of the query range on an occurrence starting at t.
PassesWindow(t) ==
    ~(t + SeriesDuration < qrange.start \/ t > qrange.end)

\* C30: the limit comes before the test of the query range: the occurrences
\* kept are the 1000 earliest candidates of the buffered range, at most 1000
\* are returned, those returned are exactly the kept ones that pass the test
\* of the query range, and no candidate after the 1000th is returned, inside
\* the query range or not.
C30_LimitBeforeWindowFilter ==
    Expanded =>
        /\ Len(occurrences) = Min(maxOccurrences, Cardinality(BufferedCandidates))
        /\ Range(occurrences) \subseteq BufferedCandidates
        /\ \A t \in BufferedCandidates \ Range(occurrences) :
              t > occurrences[Len(occurrences)]
        /\ Len(pout.events) <= maxOccurrences
        /\ ReturnedStarts = {t \in Range(occurrences) : PassesWindow(t)}
        /\ \A i \in 1..(Len(pout.events) - 1) :
              pout.events[i].Start < pout.events[i + 1].Start
        /\ PastLimit \cap ReturnedStarts = {}

\* An hourly series in the range of a month: the 1000 earliest candidates
\* end inside the month, and candidates after them lie inside it too.
C30_Witness ==
    /\ Expanded /\ pcomp.rrule.freq = "HOURLY"
    /\ qrange = GetEventsMonthRange(timezone, 2)
    /\ Len(pout.events) > 0
    /\ \E t \in PastLimit : PassesWindow(t) /\ t < qrange.end

(***************************************************************************)
(* The response of GetEvents and the order the sources complete in         *)
(* (specification Spec).                                                   *)
(***************************************************************************)
\* The lists of the first n sources one after the other, as allEvents holds
\* them when the sources complete in the order they are configured in.
RECURSIVE InSourceOrder(_)
InSourceOrder(n) ==
    IF n = 0 THEN <<>>
    ELSE InSourceOrder(n - 1)
            \o (IF srcOutcome[n].err THEN <<>> ELSE srcOutcome[n].events)

\* C28: the list of a successful response is the one GetEvents returns when
\* the sources complete in configured order, in every interleaving of the
\* fetch tasks: contents and order depend on the fetched lists alone.
C28_ResponseIndependentOfInterleaving ==
    (hpc = "done" /\ ValidRequest /\ Len(resp) = 1 /\ resp[1].code = 200) =>
        resp[1].events = SortEvents(InSourceOrder(NumSources))

(***************************************************************************)
(* Handler.GetEventsMonth (handler.go:160-244; specification SpecMonth).   *)
(* The goroutines are those of GetEvents, but for a failed fetch, which is *)
(* logged and appends nothing; the year of a request is the year of day 0. *)
(***************************************************************************)
QueryInt(n) == [text |-> "int", n |-> n]

\* The requests: a parameter missing or no number, a month out of range,
\* and the month of March.
MonthRequests ==
    { [year |-> [text |-> "missing", n |-> 0], month |-> QueryInt(3)],
      [year |-> QueryInt(0), month |-> [text |-> "missing", n |-> 0]],
      [year |-> [text |-> "garbage", n |-> 0], month |-> QueryInt(3)],
      [year |-> QueryInt(0), month |-> [text |-> "garbage", n |-> 0]],
      [year |-> QueryInt(0), month |-> QueryInt(0)],
      [year |-> QueryInt(0), month |-> QueryInt(13)],
      [year |-> QueryInt(0), month |-> QueryInt(3)] }

\* An event from the wall-clock reading w1 to w2 of the display timezone.
MonthEvent(uid, allDay, w1, w2) ==
    Event(<<uid>>, <<97>>, <<>>, <<>>, Date(ZoneEast, w1), Date(ZoneEast, w2),
          allDay, 0, FALSE)

\* The first of March is day 59.  An hour of the fifth; the all-day event
\* of the fifteenth; an all-day event of the tenth to the twelfth; 23:00 of
\* the twentieth to 01:00 of the next day; from the 27th of February to the
\* second; from the thirtieth to the second of April.
TimedOneDay   == MonthEvent("m1", FALSE, At(63, 9), At(63, 10))
AllDayOneDay  == MonthEvent("m2", TRUE, Day(73), Day(74))
AllDayThree   == MonthEvent("m3", TRUE, Day(68), Day(71))
OverMidnight  == MonthEvent("m4", FALSE, At(78, 23), At(79, 1))
FromFebruary  == MonthEvent("m5", FALSE, At(57, 9), At(60, 10))
IntoApril     == MonthEvent("m6", FALSE, At(88, 9), At(91, 10))

\* What FetchEvents returns for the range of March: an error, or a list it
\* has sorted.
MonthOutcomes ==
    {[err |-> TRUE, events |-> <<>>]}
    \cup {[err |-> FALSE, events |-> SortEvents(l)] :
            l \in { <<>>, <<TimedOneDay>>, <<AllDayOneDay, IntoApril>>, <<AllDayThree>>,
                    <<OverMidnight>>, <<FromFebruary>> }}

InitMonth ==
    /\ IdleStore
    /\ timezone = ZoneEast
    /\ req \in MonthRequests
    /\ hpc = "parse"
    /\ qrange = [start |-> 0, end |-> 0]
    /\ IdleParseEvent
    /\ IdleFetchEvents
    /\ spawned = 0
    /\ \E f \in [Sources -> MonthOutcomes] :
           srcOutcome = [c \in Sources |-> OfCalendar(f[c], c)]
    /\ tpc = [c \in Sources |-> "unstarted"]
    /\ tres = [c \in Sources |-> TaskLocals(NoResult, <<>>)]
    /\ allEvents = <<>>
    /\ errs = <<>>
    /\ mu = NoOne
    /\ wg = 0
    /\ resp = <<>>

\* handler.go:162-188: the query parameters are read and parsed; a missing
\* or unparsable one, or a month out of 1..12, is answered 400.
MonthParseQuery ==
    /\ hpc = "parse"
    /\ IF req.year.text # "int" \/ req.month.text # "int"
          \/ req.month.n < 1 \/ req.month.n > 12
       THEN /\ resp' = Append(resp, [code |-> 400, days |-> <<>>])
            /\ hpc' = "done"
            /\ UNCHANGED qrange
       ELSE /\ qrange' = GetEventsMonthRange(timezone, req.month.n)
            /\ hpc' = "spawn"
            /\ UNCHANGED resp
    /\ UNCHANGED <<storeVars, parseVars, fetchVars, timezone, req, spawned, srcOutcome, tpc, tres, allEvents,
                   errs, mu, wg>>

\* handler.go:199-204: events, err := c.FetchEvents(start, end); on an error
\* the goroutine logs it and returns, and the deferred wg.Done() runs.
MonthTaskFetch(c) ==
    /\ tpc[c] = "fetch"
    /\ IF srcOutcome[c].err
       THEN /\ tpc' = [tpc EXCEPT ![c] = "done"]
            /\ wg' = wg - 1
            /\ UNCHANGED tres
       ELSE /\ tres' = [tres EXCEPT ![c] = TaskLocals(srcOutcome[c], <<>>)]
            /\ tpc' = [tpc EXCEPT ![c] = "lock"]
            /\ UNCHANGED wg
    /\ UNCHANGED <<storeVars, parseVars, fetchVars, timezone, req, hpc, qrange, spawned, srcOutcome, allEvents,
                   errs, mu, resp>>

\* handler.go:226-230: the days the loop over a timed event marks: it goes
\* on from the start in steps of 24 hours while d is before the end of the
\* event and in the month of the request.
LoopDays(event, tz, month) ==
    LET InLoop(k) == /\ event.Start + k * SecondsPerDay < event.End
                     /\ MonthOf(WallClock(tz, event.Start + k * SecondsPerDay)) = month
    IN  { DayOfMonth(WallClock(tz, event.Start + k * SecondsPerDay)) :
            k \in {j \in 0..((event.End - event.Start) \div SecondsPerDay) :
                      \A i \in 0..j : InLoop(i)} }

\* handler.go:219-232: the keys of daysSet once the loop over allEvents is
\* over: the day of the start of every event, and for a timed event the days
\* of its loop.
daysSet(all, tz, month) ==
    UNION { {DayOfMonth(WallClock(tz, all[i].Start))}
                \cup (IF all[i].AllDay THEN {} ELSE LoopDays(all[i], tz, month)) :
            i \in DOMAIN all }

\* The orders a range over a map with the keys S may go through them in.
RECURSIVE MapOrders(_)
MapOrders(S) ==
    IF S = {} THEN {<<>>}
    ELSE UNION { {<<x>> \o rest : rest \in MapOrders(S \ {x})} : x \in S }

\* The response of GetEvents in place of that of GetEventsMonth: an error
\* when no source has returned a list.
MonthRespond_ReportsFailure ==
    /\ hpc = "respond"
    /\ IF \A c \in Sources : srcOutcome[c].err
       THEN resp' = Append(resp, [code |-> 500, days |-> <<>>])
       ELSE \E days \in MapOrders(daysSet(allEvents, timezone, req.month.n)) :
               resp' = Append(resp, [code |-> 200, days |-> days])
    /\ hpc' = "done"
    /\ UNCHANGED <<storeVars, parseVars, fetchVars, timezone, req, qrange, spawned, srcOutcome, tpc, tres,
                   allEvents, errs, mu, wg>>

\* handler.go:218-243: the day set, the slice of its keys in the order the
\* range over the map yields them, and the response.
MonthRespond ==
    /\ hpc = "respond"
    /\ \E days \in MapOrders(daysSet(allEvents, timezone, req.month.n)) :
          resp' = Append(resp, [code |-> 200, days |-> days])
    /\ hpc' = "done"
    /\ UNCHANGED <<storeVars, parseVars, fetchVars, timezone, req, qrange, spawned, srcOutcome, tpc, tres,
                   allEvents, errs, mu, wg>>

MonthNext ==
    \/ MonthParseQuery
    \/ SpawnNext
    \/ \E c \in Sources : MonthTaskFetch(c)
    \/ \E c \in Sources : TaskLock(c)
    \/ \E c \in Sources : TaskRead(c)
    \/ \E c \in Sources : TaskAppend(c)
    \/ \E c \in Sources : TaskUnlock(c)
    \/ Wait
    \/ MonthRespond

SpecMonth == InitMonth /\ [][MonthNext]_vars

(***************************************************************************)
(* Properties of GetEventsMonth (specification SpecMonth).                 *)
(***************************************************************************)
ValidMonthRequest ==
    req.year.text = "int" /\ req.month.text = "int" /\ req.month.n \in 1..12

\* The events the surviving sources return.
SurvivingEvents == UNION {Range(srcOutcome[c].events) : c \in Surviving}

\* The event e covers some part of the day d of the month: its interval
\* meets the day, from 00:00:00 to the next 00:00:00 of the display
\* timezone; an event of no length covers the day of its instant.
CoversDay(e, month, d) ==
    LET lo == Date(timezone, (DaysBefore(month) + d - 1) * SecondsPerDay)
        hi == Date(timezone, (DaysBefore(month) + d) * SecondsPerDay)
    IN  /\ e.Start < hi
        /\ e.End > lo \/ (e.End = e.Start /\ e.Start >= lo)

\* C25: the days of the response of the month view are exactly the days d
\* of the requested month of which some fetched event covers a part.
C25_DaysAreCoveredDays ==
    (hpc = "done" /\ ValidMonthRequest) =>
        Range(resp[1].days) =
            { d \in 1..MonthLengths[req.month.n] :
                \E e \in SurvivingEvents : CoversDay(e, req.month.n, d) }

MaxWeek == 2         \* weeks the navigation goes before and after the current one

Weeks == (0 - MaxWeek)..MaxWeek

\* What fetchEvents resolves to for the week w: the events of that week.
WeekEvents(w) == <<[week |-> w]>>

InitWeek ==
    /\ timezone = ZoneUTC
    /\ qrange = [start |-> 0, end |-> 0]
    /\ IdleGetEvents
    /\ IdleParseEvent
    /\ IdleFetchEvents
    /\ IdleMonth
    /\ selectedWeekStart = 0
    /\ events = <<>>
    /\ loading = FALSE
    /\ weekFetch = <<>>
    /\ initPc = "start"
    /\ errorShown = FALSE

\* calendar.svelte.ts:57-62: loadEvents up to its await, called with the
\* week w selected: it returns at once when loading is set, and else sets
\* it and calls fetchEvents(this.selectedWeekStart, this.weekEnd).
loadEvents(w) ==
    IF loading
    THEN UNCHANGED <<loading, weekFetch>>
    ELSE /\ loading' = TRUE
         /\ weekFetch' = <<w>>

\* calendar.svelte.ts:38-48: init has the configuration and the version and
\* calls loadEvents.
InitLoadEvents ==
    /\ initPc = "start"
    /\ initPc' = "done"
    /\ loadEvents(selectedWeekStart)
    /\ UNCHANGED <<selectedWeekStart, events, errorShown>>
    /\ UNCHANGED <<timezone, qrange, aggVars, parseVars, fetchVars, monthVars>>

\* calendar.svelte.ts:49-53: fetchConfig or fetchHealth rejects.
InitFails ==
    /\ initPc = "start"
    /\ initPc' = "done"
    /\ errorShown' = TRUE
    /\ UNCHANGED <<selectedWeekStart, events, loading, weekFetch>>
    /\ UNCHANGED <<timezone, qrange, aggVars, parseVars, fetchVars, monthVars>>

\* calendar.svelte.ts:83-86.
selectWeek(w) ==
    /\ selectedWeekStart' = w
    /\ loadEvents(w)
    /\ UNCHANGED <<events, initPc, errorShown>>
    /\ UNCHANGED <<timezone, qrange, aggVars, parseVars, fetchVars, monthVars>>

\* calendar.svelte.ts:89-92.
nextWeek ==
    /\ selectedWeekStart < MaxWeek
    /\ selectedWeekStart' = selectedWeekStart + 1
    /\ loadEvents(selectedWeekStart + 1)
    /\ UNCHANGED <<events, initPc, errorShown>>
    /\ UNCHANGED <<timezone, qrange, aggVars, parseVars, fetchVars, monthVars>>

\* calendar.svelte.ts:95-98.
previousWeek ==
    /\ selectedWeekStart > 0 - MaxWeek
    /\ selectedWeekStart' = selectedWeekStart - 1
    /\ loadEvents(selectedWeekStart - 1)
    /\ UNCHANGED <<events, initPc, errorShown>>
    /\ UNCHANGED <<timezone, qrange, aggVars, parseVars, fetchVars, monthVars>>

\* calendar.svelte.ts:101-104.
goToCurrentWeek ==
    /\ selectedWeekStart' = 0
    /\ loadEvents(0)
    /\ UNCHANGED <<events, initPc, errorShown>>
    /\ UNCHANGED <<timezone, qrange, aggVars, parseVars, fetchVars, monthVars>>

\* calendar.svelte.ts:62 and 67-69: the promise resolves; the events are
\* stored and the finally block clears loading.
FetchEventsResolves ==
    /\ weekFetch # <<>>
    /\ events' = WeekEvents(weekFetch[1])
    /\ loading' = FALSE
    /\ weekFetch' = <<>>
    /\ UNCHANGED <<selectedWeekStart, initPc, errorShown>>
    /\ UNCHANGED <<timezone, qrange, aggVars, parseVars, fetchVars, monthVars>>

\* calendar.svelte.ts:63-69: the promise rejects; the error is shown and the
\* finally block clears loading.
FetchEventsRejects ==
    /\ weekFetch # <<>>
    /\ errorShown' = TRUE
    /\ loading' = FALSE
    /\ weekFetch' = <<>>
    /\ UNCHANGED <<selectedWeekStart, events, initPc>>
    /\ UNCHANGED <<timezone, qrange, aggVars, parseVars, fetchVars, monthVars>>

WeekNext ==
    \/ InitLoadEvents
    \/ InitFails
    \/ \E w \in Weeks : selectWeek(w)
    \/ nextWeek
    \/ previousWeek
    \/ goToCurrentWeek
    \/ FetchEventsResolves
    \/ FetchEventsRejects

SpecWeek == InitWeek /\ [][WeekNext]_vars

\* C26: when no fetch is in flight, no fetch has failed and events have been
\* fetched, the stored events are those of the week selected.
C26_EventsOfSelectedWeek ==
    (~loading /\ ~errorShown /\ events # <<>>) =>
        events = WeekEvents(selectedWeekStart)

(***************************************************************************)
(* MonthCalendar and CalendarStore.loadMonthEventDays (specification       *)
(* SpecMonthView).  Months are numbered from the one shown at first, 0.    *)
(* The effect runs when the component is mounted and after every change of *)
(* currentMonth, before the next event is handled.                         *)
(***************************************************************************)
MaxMonthSteps == 2   \* months the component goes before and after the first one
MaxPending == 2      \* calls of fetchMonthEventDays in flight at once

\* What fetchMonthEventDays resolves to for the month mth: the days of that
\* month with events, which differ from month to month.
MonthDays(mth) == <<15 + mth>>

InitMonthView ==
    /\ timezone = ZoneUTC
    /\ qrange = [start |-> 0, end |-> 0]
    /\ IdleGetEvents
    /\ IdleParseEvent
    /\ IdleFetchEvents
    /\ IdleWeek
    /\ currentMonth = 0
    /\ effectPending = TRUE
    /\ monthEventDays = <<>>
    /\ monthFetches = <<>>
    /\ consoleErrors = FALSE

\* calendar.svelte.ts:73-75: loadMonthEventDays up to its await: the call of
\* fetchMonthEventDays(year, month).
loadMonthEventDays(mth) == monthFetches' = Append(monthFetches, mth)

\* MonthCalendar.svelte:12-16: the effect as it runs on mount.
MonthEffect ==
    /\ effectPending
    /\ effectPending' = FALSE
    /\ loadMonthEventDays(currentMonth)
    /\ UNCHANGED <<currentMonth, monthEventDays, consoleErrors>>
    /\ UNCHANGED <<timezone, qrange, aggVars, parseVars, fetchVars, weekVars>>

\* MonthCalendar.svelte:22-24, and the effect the change brings about.
goToPreviousMonth ==
    /\ ~effectPending
    /\ currentMonth > 0 - MaxMonthSteps
    /\ Len(monthFetches) < MaxPending
    /\ currentMonth' = currentMonth - 1
    /\ loadMonthEventDays(currentMonth - 1)
    /\ UNCHANGED <<effectPending, monthEventDays, consoleErrors>>
    /\ UNCHANGED <<timezone, qrange, aggVars, parseVars, fetchVars, weekVars>>

\* MonthCalendar.svelte:26-28, and the effect the change brings about.
goToNextMonth ==
    /\ ~effectPending
    /\ currentMonth < MaxMonthSteps
    /\ Len(monthFetches) < MaxPending
    /\ currentMonth' = currentMonth + 1
    /\ loadMonthEventDays(currentMonth + 1)
    /\ UNCHANGED <<effectPending, monthEventDays, consoleErrors>>
    /\ UNCHANGED <<timezone, qrange, aggVars, parseVars, fetchVars, weekVars>>

\* The list s without its i-th element.
RemoveAt(s, i) == SubSeq(s, 1, i - 1) \o SubSeq(s, i + 1, Len(s))

\* calendar.svelte.ts:75: one of the promises in flight resolves and its
\* result is stored.
MonthFetchResolves(i) ==
    /\ monthEventDays' = MonthDays(monthFetches[i])
    /\ monthFetches' = RemoveAt(monthFetches, i)
    /\ UNCHANGED <<currentMonth, effectPending, consoleErrors>>
    /\ UNCHANGED <<timezone, qrange, aggVars, parseVars, fetchVars, weekVars>>

\* calendar.svelte.ts:76-79: one of the promises in flight rejects; the
\* error goes to the console and nowhere else.
MonthFetchRejects(i) ==
    /\ consoleErrors' = TRUE
    /\ monthFetches' = RemoveAt(monthFetches, i)
    /\ UNCHANGED <<currentMonth, effectPending, monthEventDays>>
    /\ UNCHANGED <<timezone, qrange, aggVars, parseVars, fetchVars, weekVars>>

MonthViewNext ==
    \/ MonthEffect
    \/ goToPreviousMonth
    \/ goToNextMonth
    \/ \E i \in DOMAIN monthFetches : MonthFetchResolves(i)
    \/ \E i \in DOMAIN monthFetches : MonthFetchRejects(i)

SpecMonthView == InitMonthView /\ [][MonthViewNext]_vars

\* C27: once the effect has run, no request is in flight and none has
\* failed, monthEventDays is the result for the month displayed.
C27_DaysOfDisplayedMonth ==
    (~effectPending /\ monthFetches = <<>> /\ ~consoleErrors) =>
        monthEventDays = MonthDays(currentMonth)

====
